---- MODULE Spec2Model ----
(***************************************************************************)
(* A model of rio-stac: rio_stac/stac.py (create_stac_item,                *)
(* create_stac_asset, build_stac_assets and their helpers) and the         *)
(* recursive mode of rio_stac/scripts/cli.py.                              *)
(*                                                                         *)
(* Python strings on which the code computes (prefix, suffix, substring,   *)
(* glob, path splitting) are sequences of one-character strings, so that   *)
(* startswith / endswith / `in` / fnmatch are computed, not tabulated.     *)
(* Strings that are only compared for equality (roles, media types,        *)
(* exception names) are TLA+ strings.  A Python dict whose iteration order *)
(* the code depends on (the assets mappings) is a sequence of              *)
(* [key, asset] entries with distinct keys; a dict that is only looked up  *)
(* (extra_fields, properties) is a function.                               *)
(***************************************************************************)
EXTENDS Integers, Sequences, FiniteSets, TLC

VARIABLES op, args, ret, handles

vars == <<op, args, ret, handles>>

(***************************************************************************)
(* Bounds of the model.                                                    *)
(***************************************************************************)
MaxAssets == 2
MaxFiles == 2
MaxPairs == 3
MaxPrivatePairs == 1
MaxDensify == 2
MaxPixels == 3

(***************************************************************************)
(* Python str methods.                                                     *)
(***************************************************************************)
StartsWith(s, p) ==
    /\ Len(s) >= Len(p)
    /\ SubSeq(s, 1, Len(p)) = p

EndsWith(s, p) ==
    /\ Len(s) >= Len(p)
    /\ SubSeq(s, Len(s) - Len(p) + 1, Len(s)) = p

Contains(s, p) ==
    \E i \in 1..(Len(s) - Len(p) + 1) : SubSeq(s, i, i + Len(p) - 1) = p

UpperChars == <<"A", "B", "C", "D", "E", "F", "G", "H", "I", "J", "K", "L", "M",
                "N", "O", "P", "Q", "R", "S", "T", "U", "V", "W", "X", "Y", "Z">>

LowerChars == <<"a", "b", "c", "d", "e", "f", "g", "h", "i", "j", "k", "l", "m",
                "n", "o", "p", "q", "r", "s", "t", "u", "v", "w", "x", "y", "z">>

\* str.lower
Lower(s) ==
    [i \in 1..Len(s) |->
        IF \E j \in 1..26 : UpperChars[j] = s[i]
        THEN LowerChars[CHOOSE j \in 1..26 : UpperChars[j] = s[i]]
        ELSE s[i]]

\* str.strip
Strip(s) ==
    LET inner == {i \in 1..Len(s) : s[i] \notin {" ", "\t", "\n"}}
    IN  IF inner = {} THEN <<>>
        ELSE SubSeq(s, CHOOSE i \in inner : \A j \in inner : i <= j,
                       CHOOSE i \in inner : \A j \in inner : j <= i)

\* str.replace(" ", "")
RemoveSpaces(s) == SelectSeq(s, LAMBDA c : c # " ")

(***************************************************************************)
(* String literals of the code.                                            *)
(***************************************************************************)
S_ql == <<"q", "l">>
S_dash_ql == <<"-", "q", "l">>
S_proj == <<"p", "r", "o", "j", ":">>
S_thumbnail == <<"t", "h", "u", "m", "b", "n", "a", "i", "l">>
S_asset == <<"a", "s", "s", "e", "t">>
S_image == <<"i", "m", "a", "g", "e">>
S_b_ql == <<"b", "-", "q", "l">>
S_bands == <<"b", "a", "n", "d", "s">>
S_eo_bands == <<"e", "o", ":">> \o S_bands
S_raster_bands == <<"r", "a", "s", "t", "e", "r", ":">> \o S_bands
S_statistics == <<"s", "t", "a", "t", "i", "s", "t", "i", "c", "s">>
S_stats == <<"s", "t", "a", "t", "s">>
S_gsd == <<"g", "s", "d">>
S_proj_code == S_proj \o <<"c", "o", "d", "e">>
S_proj_epsg == S_proj \o <<"e", "p", "s", "g">>
S_proj_shape == S_proj \o <<"s", "h", "a", "p", "e">>
S_proj_bbox == S_proj \o <<"b", "b", "o", "x">>
S_proj_transform == S_proj \o <<"t", "r", "a", "n", "s", "f", "o", "r", "m">>
S_proj_geometry == S_proj \o <<"g", "e", "o", "m", "e", "t", "r", "y">>
S_proj_wkt2 == S_proj \o <<"w", "k", "t", "2">>
S_proj_projjson == S_proj \o <<"p", "r", "o", "j", "j", "s", "o", "n">>
S_proj_centroid == S_proj \o <<"c", "e", "n", "t", "r", "o", "i", "d">>
S_private == <<"_", "p", "r", "i", "v", "a", "t", "e">>
S_platform == <<"p", "l", "a", "t", "f", "o", "r", "m">>
S_cloud_cover == <<"e", "o", ":", "c", "l", "o", "u", "d", "_", "c", "o", "v", "e", "r">>
S_sci_citation == <<"s", "c", "i", ":", "c", "i", "t", "a", "t", "i", "o", "n">>
S_start_datetime == <<"s", "t", "a", "r", "t", "_", "d", "a", "t", "e", "t", "i", "m", "e">>
S_end_datetime == <<"e", "n", "d", "_", "d", "a", "t", "e", "t", "i", "m", "e">>

\* Python's None, wherever a value may be None.
None == "None"

(***************************************************************************)
(* Python dict operations.  An ordered dict is a sequence of entries       *)
(* [key |-> k, asset |-> a]; a plain dict is a function.                   *)
(***************************************************************************)
Keys(d) == {d[i].key : i \in 1..Len(d)}

IndexOf(d, k) == CHOOSE i \in 1..Len(d) : d[i].key = k

Get(d, k) == d[IndexOf(d, k)].asset

\* d.pop(k) for a key that is present.
OrderedPop(d, k) ==
    LET i == IndexOf(d, k)
    IN  SubSeq(d, 1, i - 1) \o SubSeq(d, i + 1, Len(d))

\* d[k] = a: an existing key keeps its place, a new key goes last.
OrderedSet(d, k, a) ==
    IF k \in Keys(d)
    THEN [d EXCEPT ![IndexOf(d, k)] = [key |-> k, asset |-> a]]
    ELSE Append(d, [key |-> k, asset |-> a])

\* f.pop(k, None) on a plain dict.
DictPop(f, k) == [x \in DOMAIN f \ {k} |-> f[x]]

\* f[k] = v on a plain dict.
DictSet(f, k, v) == [x \in DOMAIN f \cup {k} |-> IF x = k THEN v ELSE f[x]]

\* f.update(g)
DictUpdate(f, g) == [x \in DOMAIN f \cup DOMAIN g |-> IF x \in DOMAIN g THEN g[x] ELSE f[x]]

EmptyDict == [x \in {} |-> None]

SeqHas(s, x) == \E i \in 1..Len(s) : s[i] = x

\* x = v, then F(x): a local variable, v evaluated once.
WithValue(v, F(_)) == CHOOSE out \in {F(x) : x \in {v}} : TRUE

(***************************************************************************)
(* create_stac_item, post-processing (stac.py 748-799).                    *)
(***************************************************************************)
\* The condition of the thumbnail search loop for one entry.
IsThumbCandidate(e) ==
    \/ SeqHas(e.asset.roles, "thumbnail")
    \/ EndsWith(e.key, S_ql)
    \/ Contains(e.key, S_dash_ql)

ThumbKey_LastMatch(assets) ==
    LET hits == {i \in 1..Len(assets) : IsThumbCandidate(assets[i])}
    IN  IF hits = {} THEN <<>>
        ELSE <<assets[CHOOSE i \in hits : \A j \in hits : j <= i].key>>

\* thumb_key after the search loop: <<>> stands for None, <<k>> for key k.
ThumbKey(assets) ==
    LET hits == {i \in 1..Len(assets) : IsThumbCandidate(assets[i])}
    IN  IF hits = {} THEN <<>>
        ELSE <<assets[CHOOSE i \in hits : \A j \in hits : i <= j].key>>

\* `if thumb_key:` None and the empty string are both falsy.
ThumbSelected(assets) ==
    /\ ThumbKey(assets) # <<>>
    /\ ThumbKey(assets)[1] # <<>>

\* "Ensure roles" (764-770).
EnsureRoles(roles) ==
    IF roles = <<>> THEN <<"thumbnail", "overview">>
    ELSE LET r1 == IF SeqHas(roles, "thumbnail") THEN roles ELSE Append(roles, "thumbnail")
         IN  IF SeqHas(r1, "overview") THEN r1 ELSE Append(r1, "overview")

\* The fixed list of fields popped from the thumbnail (775-777).
ForbiddenFields ==
    {S_bands, S_eo_bands, S_raster_bands, S_statistics, S_stats,
     S_proj_epsg, S_proj_shape, S_proj_bbox, S_proj_transform,
     S_proj_geometry, S_proj_wkt2, S_proj_projjson}

\* thumb.extra_fields after 772-783.
ThumbExtraFields(extra) ==
    LET e1 == DictSet(extra, S_proj_code, None)
        e2 == [x \in DOMAIN e1 \ ForbiddenFields |-> e1[x]]
        keys_to_pop == {ek \in DOMAIN e2 : StartsWith(ek, S_proj) /\ ek # S_proj_code}
    IN  [x \in DOMAIN e2 \ keys_to_pop |-> e2[x]]

\* The thumbnail object after 760-783.
CleanThumb(thumb) ==
    [thumb EXCEPT !.title = "thumbnail",
                  !.description = "thumbnail",
                  !.roles = EnsureRoles(thumb.roles),
                  !.extra_fields = ThumbExtraFields(thumb.extra_fields)]

\* 1. Clean Thumbnail (751-786).
CleanThumbnail(assets) ==
    IF ThumbSelected(assets)
    THEN LET thumb_key == ThumbKey(assets)[1]
             thumb == Get(assets, thumb_key)
         IN  OrderedSet(OrderedPop(assets, thumb_key), S_thumbnail, CleanThumb(thumb))
    ELSE assets

CleanMetadataAsset_CodeOnly(asset) ==
    IF SeqHas(asset.roles, "metadata")
    THEN [asset EXCEPT !.extra_fields = DictPop(asset.extra_fields, S_proj_code)]
    ELSE asset

\* One asset of the metadata loop (790-793).
CleanMetadataAsset(asset) ==
    IF SeqHas(asset.roles, "metadata")
    THEN [asset EXCEPT !.extra_fields =
             [x \in {k \in DOMAIN asset.extra_fields : ~StartsWith(k, S_proj)}
                 |-> asset.extra_fields[x]]]
    ELSE asset

CleanMetadataAssets_Every(assets) ==
    [i \in 1..Len(assets) |->
        [key |-> assets[i].key,
         asset |-> [assets[i].asset EXCEPT !.extra_fields =
                       [x \in {k \in DOMAIN assets[i].asset.extra_fields : ~StartsWith(k, S_proj)}
                           |-> assets[i].asset.extra_fields[x]]]]]

\* 2. Clean Metadata Assets (789-793).
CleanMetadataAssets(assets) ==
    [i \in 1..Len(assets) |->
        [key |-> assets[i].key, asset |-> CleanMetadataAsset(assets[i].asset)]]

CleanItemProperties_CodeOnly(properties) == DictPop(properties, S_proj_code)

\* 3. Clean Item Properties (797-799).
CleanItemProperties(properties) ==
    [x \in {k \in DOMAIN properties : ~StartsWith(k, S_proj)} |-> properties[x]]

PostProcessAssets(assets) ==
    WithValue(CleanThumbnail(assets), LAMBDA cleaned : CleanMetadataAssets(cleaned))

(***************************************************************************)
(* Raster handles (rasterio datasets).  A handle is a record                *)
(*   id        "dataset" for an opened file, "vrt" for a WarpedVRT          *)
(*   crs       the name of its CRS, or None                                 *)
(*   gcps_crs  the CRS of its ground-control points, None when it has none  *)
(*   driver    the GDAL driver                                              *)
(*   bounds    (left, bottom, right, top) in the units of the CRS           *)
(*   shape, transform   opaque values, different for each handle            *)
(*   bands     one record per band                                          *)
(*   nodata    the nodata value of the dataset, a float or None             *)
(*   area_or_point   the AREA_OR_POINT tag, <<>> when it is not set         *)
(*   imagery   the dataset tags CENTRAL_WAVELENGTH_UM and FWHM_UM           *)
(*   tags      the dataset tags the code reads                              *)
(* A CRS is known by name; what rasterio answers for it is in CrsTable.     *)
(***************************************************************************)
CrsTable ==
    [c \in {"EPSG:32621", "IAU_2015:49900", "LocalWkt", "LocalProjjson", "LocalOpaque", "EpsgOnly"} |->
        CASE c = "EPSG:32621" ->
                [to_authority |-> "EPSG:32621", is_epsg_code |-> TRUE, to_epsg |-> "EPSG:32621",
                 to_wkt |-> "wkt(EPSG:32621)", projjson |-> "projjson(EPSG:32621)"]
          [] c = "IAU_2015:49900" ->
                [to_authority |-> "IAU_2015:49900", is_epsg_code |-> FALSE, to_epsg |-> None,
                 to_wkt |-> "wkt(IAU_2015:49900)", projjson |-> "projjson(IAU_2015:49900)"]
          [] c = "LocalWkt" ->
                [to_authority |-> None, is_epsg_code |-> FALSE, to_epsg |-> None,
                 to_wkt |-> "wkt(LocalWkt)", projjson |-> "projjson(LocalWkt)"]
          [] c = "LocalProjjson" ->
                [to_authority |-> "raises", is_epsg_code |-> FALSE, to_epsg |-> None,
                 to_wkt |-> "raises", projjson |-> "projjson(LocalProjjson)"]
          [] c = "LocalOpaque" ->
                [to_authority |-> None, is_epsg_code |-> FALSE, to_epsg |-> None,
                 to_wkt |-> "raises", projjson |-> "raises"]
          [] c = "EpsgOnly" ->
                [to_authority |-> "raises", is_epsg_code |-> TRUE, to_epsg |-> "EPSG:4326",
                 to_wkt |-> "wkt(EpsgOnly)", projjson |-> "projjson(EpsgOnly)"]]

\* `crs != EPSG_4326` (82): rasterio compares the systems, not their names.
IsGeographic(crs) == CrsTable[crs].to_epsg = "EPSG:4326"

\* dataset.bounds: degrees for a geographic CRS, kilometres for a projected
\* one, pixels when there is no CRS.
BoundsOf(crs) ==
    IF crs = None THEN <<0, 64, 128, 0>>
    ELSE IF IsGeographic(crs) THEN <<-62, 70, -58, 74>>
    ELSE <<400, 7800, 600, 8200>>

\* bbox_to_geom (stac.py 51-64).
BboxToGeom(bbox) ==
    [type |-> "Polygon",
     coordinates |-> << << <<bbox[1], bbox[2]>>, <<bbox[3], bbox[2]>>, <<bbox[3], bbox[4]>>,
                           <<bbox[1], bbox[4]>>, <<bbox[1], bbox[2]>> >> >>]

N_code == <<"c", "o", "d", "e">>
N_geometry == <<"g", "e", "o", "m", "e", "t", "r", "y">>
N_bbox == <<"b", "b", "o", "x">>
N_shape == <<"s", "h", "a", "p", "e">>
N_transform == <<"t", "r", "a", "n", "s", "f", "o", "r", "m">>
N_wkt2 == <<"w", "k", "t", "2">>
N_projjson == <<"p", "r", "o", "j", "j", "s", "o", "n">>

\* The code resolved by get_projection_info (stac.py 129-140).
ProjectionCode(src_dst) ==
    IF src_dst.crs = None THEN None
    ELSE LET crs == CrsTable[src_dst.crs]
             code1 == IF crs.to_authority \in {"raises", None} THEN None ELSE crs.to_authority
         IN  IF code1 = None /\ crs.is_epsg_code
             THEN crs.to_epsg
             ELSE code1

GetProjectionInfo_Both(src_dst) ==
    LET meta == [x \in {N_code, N_geometry, N_bbox, N_shape, N_transform} |->
                    CASE x = N_code -> ProjectionCode(src_dst)
                      [] x = N_geometry -> BboxToGeom(src_dst.bounds)
                      [] x = N_bbox -> src_dst.bounds
                      [] x = N_shape -> src_dst.shape
                      [] x = N_transform -> src_dst.transform]
    IN  IF src_dst.crs # None /\ CrsTable[src_dst.crs].to_wkt # "raises"
        THEN DictSet(meta, N_wkt2, CrsTable[src_dst.crs].to_wkt)
        ELSE meta

\* get_projection_info (stac.py 111-162).
GetProjectionInfo(src_dst) ==
    LET code == ProjectionCode(src_dst)
        meta == [x \in {N_code, N_geometry, N_bbox, N_shape, N_transform} |->
                    CASE x = N_code -> code
                      [] x = N_geometry -> BboxToGeom(src_dst.bounds)
                      [] x = N_bbox -> src_dst.bounds
                      [] x = N_shape -> src_dst.shape
                      [] x = N_transform -> src_dst.transform]
    IN  IF code = None /\ src_dst.crs # None
        THEN LET crs == CrsTable[src_dst.crs]
             IN  IF crs.to_wkt # "raises" THEN DictSet(meta, N_wkt2, crs.to_wkt)
                 ELSE IF crs.projjson # "raises" THEN DictSet(meta, N_projjson, crs.projjson)
                 ELSE meta
        ELSE meta

\* get_media_type (stac.py 326-361).
GetMediaType(src_dst) ==
    CASE src_dst.driver = "GTiff" ->
            IF src_dst.crs # None THEN "image/tiff; application=geotiff" ELSE "image/tiff"
      [] src_dst.driver \in {"JP2ECW", "JP2KAK", "JP2LURA", "JP2MrSID", "JP2OpenJPEG", "JPEG2000"} -> "image/jp2"
      [] src_dst.driver \in {"HDF4", "HDF4Image"} -> "application/x-hdf"
      [] src_dst.driver \in {"HDF5", "HDF5Image"} -> "application/x-hdf5"
      [] src_dst.driver = "JPEG" -> "image/jpeg"
      [] src_dst.driver = "PNG" -> "image/png"
      [] OTHER -> None

\* f"b{ix}"
BandName(ix) == <<"b1", "b2", "b3", "b4", "b5">>[ix]

(***************************************************************************)
(* Numbers.  A float is [cls, v]: cls is "nan", "inf", "-inf" or "finite", *)
(* and v its value, counted in the steps of the grid of representable      *)
(* values (Half steps make 0.5); cls "none" stands for Python's None.      *)
(* A JSON value that is a string or a number is [json, str, num].          *)
(***************************************************************************)
Half == 2

Finite(v) == [cls |-> "finite", v |-> v]
NaN == [cls |-> "nan", v |-> 0]
PosInf == [cls |-> "inf", v |-> 0]
NegInf == [cls |-> "-inf", v |-> 0]
NoNumber == [cls |-> "none", v |-> 0]

JsonString(s) == [json |-> "string", str |-> s, num |-> 0]
JsonNumber(n) == [json |-> "number", str |-> "", num |-> n]

(***************************************************************************)
(* Python floats in arithmetic (IEEE 754 binary64).  A natural number of   *)
(* any size is the sequence of its digits in base Base, lowest first and   *)
(* without leading zeros (<<>> is 0).  A double is [sig, exp], the value   *)
(* sig * 2^exp with sig a natural of exactly Precision bits, or sig = 0.   *)
(* Every operation gives the exact result rounded to the nearest double,   *)
(* ties to the even significand.                                           *)
(***************************************************************************)
Base == 32768

LimbBits == 15

Precision == 53

BigTrim(a0) ==
    WithValue(a0, LAMBDA a :
        LET nz == {i \in 1..Len(a) : a[i] # 0}
        IN  IF nz = {} THEN <<>>
            ELSE SubSeq(a, 1, CHOOSE i \in nz : \A j \in nz : j <= i))

\* n < Base * Base
BigOfInt(n) == BigTrim(<<n % Base, n \div Base>>)

\* a < Base * Base
IntOfBig(a) ==
    IF a = <<>> THEN 0 ELSE IF Len(a) = 1 THEN a[1] ELSE a[1] + Base * a[2]

\* a * k, 0 <= k < Base
BigMulSmall(a0, k) ==
    WithValue(a0, LAMBDA a :
        LET carry[i \in 0..Len(a)] == IF i = 0 THEN 0 ELSE (a[i] * k + carry[i - 1]) \div Base
        IN  BigTrim([i \in 1..(Len(a) + 1) |->
                        IF i <= Len(a) THEN (a[i] * k + carry[i - 1]) % Base
                        ELSE carry[Len(a)]]))

\* a + k, 0 <= k < Base
BigAddSmall(a0, k) ==
    WithValue(a0, LAMBDA a :
        LET carry[i \in 0..Len(a)] == IF i = 0 THEN k ELSE (a[i] + carry[i - 1]) \div Base
        IN  BigTrim([i \in 1..(Len(a) + 1) |->
                        IF i <= Len(a) THEN (a[i] + carry[i - 1]) % Base
                        ELSE carry[Len(a)]]))

\* a - b, for a >= b
BigSub(a0, b0) ==
    WithValue(<<a0, b0>>, LAMBDA p :
        LET a == p[1]
            b == p[2]
            digit(i) == IF i <= Len(b) THEN b[i] ELSE 0
            borrow[i \in 0..Len(a)] ==
                IF i = 0 THEN 0
                ELSE IF a[i] - digit(i) - borrow[i - 1] < 0 THEN 1 ELSE 0
        IN  BigTrim([i \in 1..Len(a) |-> (a[i] - digit(i) - borrow[i - 1] + Base) % Base]))

\* -1, 0 or 1 as a < b, a = b or a > b
BigCmp(a0, b0) ==
    WithValue(<<a0, b0>>, LAMBDA p :
        LET a == p[1]
            b == p[2]
            differ == {i \in 1..Len(a) : a[i] # b[i]}
            top == CHOOSE i \in differ : \A j \in differ : j <= i
        IN  IF Len(a) # Len(b) THEN (IF Len(a) < Len(b) THEN 0 - 1 ELSE 1)
            ELSE IF a = b THEN 0
            ELSE IF a[top] < b[top] THEN 0 - 1 ELSE 1)

\* [q, r] with a = q * k + r, 0 < k < Base
BigDivSmall(a0, k) ==
    WithValue(a0, LAMBDA a :
        LET rem[i \in 1..(Len(a) + 1)] ==
                IF i = Len(a) + 1 THEN 0 ELSE (rem[i + 1] * Base + a[i]) % k
        IN  [q |-> BigTrim([i \in 1..Len(a) |-> (rem[i + 1] * Base + a[i]) \div k]),
             r |-> rem[1]])

\* a * 2^d
BigShiftLeft(a0, d) ==
    WithValue(a0, LAMBDA a :
        IF a = <<>> THEN <<>>
        ELSE [i \in 1..(d \div LimbBits) |-> 0] \o BigMulSmall(a, 2 ^ (d % LimbBits)))

\* a \div 2^d
BigShiftRight(a0, d) ==
    WithValue(a0, LAMBDA a :
        IF d \div LimbBits >= Len(a) THEN <<>>
        ELSE BigDivSmall(SubSeq(a, d \div LimbBits + 1, Len(a)), 2 ^ (d % LimbBits)).q)

\* The number of bits of a.
BitLen(a0) ==
    WithValue(a0, LAMBDA a :
        IF a = <<>> THEN 0
        ELSE LimbBits * (Len(a) - 1)
             + (CHOOSE n \in 1..LimbBits : 2 ^ (n - 1) <= a[Len(a)] /\ a[Len(a)] < 2 ^ n))

\* The double nearest to n * 2^exp, or to a value just above it when
\* `sticky` (bits were lost below n); n then has more than Precision bits.
RoundBig(n0, exp, sticky) ==
    WithValue(n0, LAMBDA n :
    WithValue(BitLen(n) - Precision, LAMBDA d :
        IF n = <<>> THEN [sig |-> <<>>, exp |-> 0]
        ELSE IF d <= 0 THEN [sig |-> BigShiftLeft(n, 0 - d), exp |-> exp + d]
        ELSE WithValue(BigShiftRight(n, d), LAMBDA q :
             WithValue(BigCmp(BigSub(n, BigShiftLeft(q, d)), BigShiftLeft(<<1>>, d - 1)),
                       LAMBDA half :
                 IF half < 0 \/ (half = 0 /\ ~sticky /\ q[1] % 2 = 0)
                 THEN [sig |-> q, exp |-> exp + d]
                 ELSE WithValue(BigAddSmall(q, 1), LAMBDA up :
                          IF BitLen(up) > Precision
                          THEN [sig |-> BigShiftRight(up, 1), exp |-> exp + d + 1]
                          ELSE [sig |-> up, exp |-> exp + d])))))

\* h / w for two positive ints below Base: the quotient, correctly rounded.
IntOverInt(h, w) ==
    WithValue(BigDivSmall(BigShiftLeft(BigOfInt(h), 5 * LimbBits), w), LAMBDA d :
        RoundBig(d.q, 0 - 5 * LimbBits, d.r # 0))

\* n * x for an int below Base (converted exactly) and a double.
IntTimesFloat(n, x) == RoundBig(BigMulSmall(x.sig, n), x.exp, FALSE)

\* One step of the long division by the natural d: the next bit of the quotient.
LongDivStep(s0, d) ==
    WithValue(s0, LAMBDA s :
    WithValue(BigMulSmall(s.r, 2), LAMBDA r2 :
        IF BigCmp(r2, d) >= 0
        THEN [q |-> BigAddSmall(BigMulSmall(s.q, 2), 1), r |-> BigSub(r2, d)]
        ELSE [q |-> BigMulSmall(s.q, 2), r |-> r2]))

\* LimbBits steps of the long division.
LongDivLimb(s, d) ==
    LET after[i \in 0..LimbBits] == IF i = 0 THEN s ELSE LongDivStep(after[i - 1], d)
    IN  after[LimbBits]

\* [q, r] after `limbs` times LimbBits bits of the quotient.
RECURSIVE LongDiv(_, _, _)
LongDiv(s, d, limbs) ==
    IF limbs = 0 THEN s
    ELSE WithValue(LongDivLimb(s, d), LAMBDA next : LongDiv(next, d, limbs - 1))

\* n / x for a positive int below Base (converted exactly) and a double x > 0.
IntOverFloat(n, x) ==
    WithValue(LongDiv([q |-> <<>>, r |-> BigOfInt(n)], x.sig, 8), LAMBDA s :
        RoundBig(s.q, 0 - 8 * LimbBits - x.exp, s.r # <<>>))

\* x > 1
GreaterThanOne(x) ==
    x.sig # <<>> /\ (x.exp >= 0 \/ BigCmp(x.sig, BigShiftLeft(<<1>>, 0 - x.exp)) > 0)

\* math.ceil(x) for a double 0 <= x < Base * Base
Ceil(x) ==
    IF x.sig = <<>> THEN 0
    ELSE IF x.exp >= 0 THEN IntOfBig(BigShiftLeft(x.sig, x.exp))
    ELSE WithValue(BigShiftRight(x.sig, 0 - x.exp), LAMBDA q :
             IF BigShiftLeft(q, 0 - x.exp) = x.sig THEN IntOfBig(q) ELSE IntOfBig(q) + 1)

\* The shape get_raster_info reads at (273-283): <<height, width>>.
ReadShape(height, width, max_size) ==
    IF max_size # 0 /\ (IF width >= height THEN width ELSE height) > max_size
    THEN WithValue(IntOverInt(height, width), LAMBDA ratio :
             IF GreaterThanOne(ratio)
             THEN <<max_size, Ceil(IntOverFloat(max_size, ratio))>>
             ELSE <<Ceil(IntTimesFloat(max_size, ratio)), max_size>>)
    ELSE <<height, width>>

\* A pixel of a masked array: a float and its mask bit.
Pixel(x, mask) == [x |-> x, mask |-> mask]

\* numpy.ma.fix_invalid(arr, copy=True) (224): nan and inf become masked.
FixInvalid(arr) ==
    [i \in 1..Len(arr) |->
        IF arr[i].x.cls # "finite" THEN Pixel(Finite(0), TRUE) ELSE arr[i]]

\* arr[~arr.mask]: the values that are not masked.
Unmasked(arr) ==
    LET kept == SelectSeq(arr, LAMBDA p : ~p.mask)
    IN  [i \in 1..Len(kept) |-> kept[i].x.v]

SeqSum(s) ==
    LET sum[n \in 0..Len(s)] == IF n = 0 THEN 0 ELSE sum[n - 1] + s[n]
    IN  sum[Len(s)]

SeqMin(s) == CHOOSE x \in {s[i] : i \in 1..Len(s)} : \A i \in 1..Len(s) : x <= s[i]

SeqMax(s) == CHOOSE x \in {s[i] : i \in 1..Len(s)} : \A i \in 1..Len(s) : s[i] <= x

TooManyBins == "Too many bins for data range."

\* numpy.histogram(a, bins, range) for an integer `bins`:
\*   the outer edges are the range, or (0, 1) for no data, or (min, max),
\*   widened by 0.5 on each side when they are equal; an inverted range or a
\*   bin count below 1 is a ValueError;
\*   the edges are bins + 1 values evenly spaced on the grid; two edges that
\*   fall on the same grid value are the ValueError "Too many bins";
\*   bucket k counts the values in [edge k, edge k+1), the last one closed.
HistogramOver(a, bins, edges) ==
    LET inside(k, v) == /\ edges[k] <= v
                        /\ IF k = bins THEN v <= edges[k + 1] ELSE v < edges[k + 1]
    IN  IF \E i \in 1..bins : edges[i] >= edges[i + 1]
        THEN [exc |-> "ValueError", msg |-> TooManyBins, sample |-> <<>>, edges |-> <<>>]
        ELSE [exc |-> None, msg |-> "",
              sample |-> [k \in 1..bins |->
                             Cardinality({i \in 1..Len(a) : inside(k, a[i])})],
              edges |-> edges]

Histogram(a, bins, range) ==
    LET outer == IF range # <<>> THEN range
                 ELSE IF a = <<>> THEN <<0, 2 * Half>>
                 ELSE <<SeqMin(a), SeqMax(a)>>
        first_edge == IF outer[1] = outer[2] THEN outer[1] - Half ELSE outer[1]
        last_edge == IF outer[1] = outer[2] THEN outer[2] + Half ELSE outer[2]
    IN  IF bins < 1
        THEN [exc |-> "ValueError", msg |-> "bins must be positive",
              sample |-> <<>>, edges |-> <<>>]
        ELSE IF range # <<>> /\ range[1] > range[2]
        THEN [exc |-> "ValueError", msg |-> "max must be larger than min in range parameter.",
              sample |-> <<>>, edges |-> <<>>]
        ELSE WithValue([i \in 1..(bins + 1) |->
                           first_edge + ((i - 1) * (last_edge - first_edge)) \div bins],
                       LAMBDA edges : HistogramOver(a, bins, edges))

NoStats == [x \in {} |-> None]

\* The `statistics` of _get_stats (226-237); mean and stddev are rounded
\* to the grid, and a fully masked array gives 0 for each of them.
Statistics(arr) ==
    LET a == Unmasked(arr)
        mean == IF a = <<>> THEN 0 ELSE SeqSum(a) \div Len(a)
    IN  [mean |-> mean,
         minimum |-> IF a = <<>> THEN 0 ELSE SeqMin(a),
         maximum |-> IF a = <<>> THEN 0 ELSE SeqMax(a),
         stddev |-> IF a = <<>> THEN 0
                    ELSE SeqSum([i \in 1..Len(a) |-> (a[i] - mean) * (a[i] - mean)]) \div Len(a),
         valid_percent |-> (Len(a) * 100) \div Len(arr)]

\* The record under "raster:histogram" (252-257).
RasterHistogram(h) ==
    [count |-> Len(h.edges), min |-> SeqMin(h.edges), max |-> SeqMax(h.edges),
     buckets |-> h.sample]

GetStats_OneBinFallback(arr0, bins, range) ==
    WithValue(FixInvalid(arr0), LAMBDA arr :
    WithValue(Unmasked(arr), LAMBDA a :
    WithValue(Histogram(a, bins, range), LAMBDA h1 :
    WithValue(IF h1.exc # None /\ h1.msg = TooManyBins
              THEN Histogram(a, 1, <<>>) ELSE h1, LAMBDA h :
        IF h.exc # None
        THEN [exc |-> h.exc, warned |-> FALSE, stats |-> NoStats]
        ELSE [exc |-> None, warned |-> FALSE,
              stats |-> [x \in {"statistics", "raster:histogram"} |->
                          IF x = "statistics" THEN Statistics(arr)
                          ELSE RasterHistogram(h)]]))))

\* _get_stats (stac.py 217-259): [exc, warned, stats].
GetStats(arr0, bins, range) ==
    WithValue(FixInvalid(arr0), LAMBDA arr :
    WithValue(Unmasked(arr), LAMBDA a :
    WithValue(Histogram(a, bins, range), LAMBDA h1 :
    \* numpy.unique(arr[~arr.mask], return_counts=True): one count per distinct value
    WithValue(Cardinality({a[i] : i \in 1..Len(a)}), LAMBDA counts :
    WithValue(IF h1.exc # None /\ h1.msg = TooManyBins
              THEN Histogram(a, counts + 1, <<>>) ELSE h1, LAMBDA h :
        IF h.exc # None
        THEN [exc |-> h.exc, warned |-> h1.exc # None /\ h1.msg = TooManyBins,
              stats |-> NoStats]
        ELSE [exc |-> None, warned |-> h1.exc # None /\ h1.msg = TooManyBins,
              stats |-> [x \in {"statistics", "raster:histogram"} |->
                          IF x = "statistics" THEN Statistics(arr)
                          ELSE RasterHistogram(h)]])))))

NodataValue_Truthy(nodata) ==
    IF nodata.cls = "none" \/ nodata = Finite(0) THEN <<>>
    ELSE CASE nodata.cls = "nan" -> <<JsonString("nan")>>
           [] nodata.cls = "inf" -> <<JsonString("inf")>>
           [] nodata.cls = "-inf" -> <<JsonString("-inf")>>
           [] OTHER -> <<JsonNumber(nodata.v)>>

\* What is stored under `nodata` (300-309): nothing for None.
NodataValue(nodata) ==
    IF nodata.cls = "none" THEN <<>>
    ELSE CASE nodata.cls = "nan" -> <<JsonString("nan")>>
           [] nodata.cls = "inf" -> <<JsonString("inf")>>
           [] nodata.cls = "-inf" -> <<JsonString("-inf")>>
           [] OTHER -> <<JsonNumber(nodata.v)>>

\* One band of get_raster_info (289-321), once its statistics are there.
RasterBand(src_dst, band, stats) ==
    LET v0 == [x \in {"name", "data_type", "raster:scale", "raster:offset"} |->
                  CASE x = "name" -> BandName(band)
                    [] x = "data_type" -> src_dst.bands[band].dtype
                    [] x = "raster:scale" -> JsonNumber(1)
                    [] x = "raster:offset" -> JsonNumber(0)]
        area_or_point == Lower(src_dst.area_or_point)
        v1 == IF area_or_point # <<>> THEN DictSet(v0, "raster:sampling", area_or_point) ELSE v0
        v2 == IF NodataValue(src_dst.nodata) # <<>>
              THEN DictSet(v1, "nodata", NodataValue(src_dst.nodata)[1]) ELSE v1
        v3 == IF src_dst.bands[band].unit # <<>>
              THEN DictSet(v2, "unit", src_dst.bands[band].unit) ELSE v2
    IN  DictUpdate(v3, stats)

\* get_raster_info (stac.py 262-323): [exc, warned, meta], meta the band
\* records by band index.  The array of a band is what src_dst.read gives at
\* the shape asked for.
GetRasterInfo(src_dst, histogram_bins, histogram_range) ==
    LET info[n \in 0..Len(src_dst.bands)] ==
            IF n = 0 THEN [exc |-> None, warned |-> FALSE, meta |-> <<>>]
            ELSE WithValue(info[n - 1], LAMBDA before :
                 IF before.exc # None THEN before
                 ELSE WithValue(GetStats(src_dst.bands[n].arr, histogram_bins, histogram_range),
                                LAMBDA s :
                          IF s.exc # None
                          THEN [exc |-> s.exc, warned |-> before.warned \/ s.warned,
                                meta |-> <<>>]
                          ELSE [exc |-> None, warned |-> before.warned \/ s.warned,
                                meta |-> Append(before.meta,
                                                RasterBand(src_dst, n, s.stats))]))
    IN  info[Len(src_dst.bands)]

EO_COMMON_NAME_VALUES ==
    {<<"p", "a", "n">>, <<"c", "o", "a", "s", "t", "a", "l">>, <<"b", "l", "u", "e">>, <<"g", "r", "e", "e", "n">>, <<"g", "r", "e", "e", "n", "0", "5">>, <<"y", "e", "l", "l", "o", "w">>, <<"r", "e", "d">>,
     <<"r", "e", "d", "e", "d", "g", "e">>, <<"r", "e", "d", "e", "d", "g", "e", "0", "7", "1">>, <<"r", "e", "d", "e", "d", "g", "e", "0", "7", "5">>, <<"r", "e", "d", "e", "d", "g", "e", "0", "7", "8">>, <<"n", "i", "r">>, <<"n", "i", "r", "0", "8">>,
     <<"n", "i", "r", "0", "9">>, <<"c", "i", "r", "r", "u", "s">>, <<"s", "w", "i", "r", "1", "6">>, <<"s", "w", "i", "r", "2", "2">>, <<"l", "w", "i", "r">>, <<"l", "w", "i", "r", "1", "1">>, <<"l", "w", "i", "r", "1", "2">>}

CommonName_NoPan(candidate) == RemoveSpaces(Lower(Strip(candidate)))

\* candidate.strip().lower().replace(" ", ""), gray and grey read as pan (190-193).
CommonName(candidate) ==
    LET common_name == RemoveSpaces(Lower(Strip(candidate)))
    IN  IF common_name \in {<<"g", "r", "a", "y">>, <<"g", "r", "e", "y">>} THEN <<"p", "a", "n">> ELSE common_name

\* float(s) on a tag value, in thousandths.
FloatOf(s) ==
    CASE s = "0.65" -> [ok |-> TRUE, v |-> 650]
      [] s = "0.03" -> [ok |-> TRUE, v |-> 30]
      [] OTHER -> [ok |-> FALSE, v |-> 0]

NoTagDict == [x \in {} |-> ""]

EoBand_DescriptionOnly(src_dst, ix) ==
    LET descr == src_dst.bands[ix].descr
        color == src_dst.bands[ix].color
        description == IF descr # <<>> THEN descr ELSE color
        m0 == [x \in {"name"} |-> BandName(ix)]
        m1 == IF description # <<>> THEN DictSet(m0, "description", description) ELSE m0
    IN  IF description # <<>> /\ CommonName(description) \in EO_COMMON_NAME_VALUES
        THEN DictSet(m1, "eo:common_name", CommonName(description))
        ELSE m1

\* One band of get_eobands_info (177-212).
EoBand(src_dst, ix) ==
    LET descr == src_dst.bands[ix].descr
        color == src_dst.bands[ix].color
        imagery_tags == IF DOMAIN src_dst.bands[ix].imagery # {}
                        THEN src_dst.bands[ix].imagery ELSE src_dst.imagery
        description == IF descr # <<>> THEN descr ELSE color
        m0 == [x \in {"name"} |-> BandName(ix)]
        m1 == IF description # <<>> THEN DictSet(m0, "description", description) ELSE m0
        matching == SelectSeq(<<descr, color>>,
                              LAMBDA c : c # <<>> /\ CommonName(c) \in EO_COMMON_NAME_VALUES)
        m2 == IF matching # <<>> THEN DictSet(m1, "eo:common_name", CommonName(matching[1]))
              ELSE m1
        cw == IF "CENTRAL_WAVELENGTH_UM" \in DOMAIN imagery_tags
              THEN FloatOf(imagery_tags["CENTRAL_WAVELENGTH_UM"]) ELSE FloatOf("")
        m3 == IF cw.ok THEN DictSet(m2, "eo:center_wavelength", JsonNumber(cw.v)) ELSE m2
        fwhm == IF "FWHM_UM" \in DOMAIN imagery_tags
                THEN FloatOf(imagery_tags["FWHM_UM"]) ELSE FloatOf("")
    IN  IF fwhm.ok THEN DictSet(m3, "eo:full_width_half_max", JsonNumber(fwhm.v)) ELSE m3

\* get_eobands_info (stac.py 165-214): the band records, by band index.
GetEobandsInfo(src_dst) ==
    [ix \in 1..Len(src_dst.bands) |-> EoBand(src_dst, ix)]

\* A band of a handle: dtype, description ("" and None are <<>>), the name
\* of its color interpretation, unit, nodata value (nodatavals), IMAGERY tags
\* and the array a read gives.  The `nodata` of the handle is that of its
\* first band.
DefaultArr == <<Pixel(Finite(0), FALSE), Pixel(Finite(12), FALSE), Pixel(Finite(40), FALSE)>>

Band(dtype) ==
    [dtype |-> dtype, descr |-> <<>>, color |-> <<"g", "r", "a", "y">>, unit |-> <<>>,
     nodata |-> NoNumber, imagery |-> NoTagDict, arr |-> DefaultArr]

(***************************************************************************)
(* Handles and scoped ownership.  `handles` maps the name of each handle   *)
(* that exists to [by, state]: who opened it ("caller" or "callee") and    *)
(* whether it is "open" or "closed".                                       *)
(***************************************************************************)
NoHandles == [x \in {} |-> [by |-> "caller", state |-> "closed"]]

\* The names of the handles of one call: the dataset and its WarpedVRT.  (A file
\* that build_stac_assets opens goes by its path.)
H_dataset == <<"dataset">>
H_vrt == <<"vrt">>

\* rasterio.open(path) or WarpedVRT(...) inside the function.
OpenHandle(h, name) == DictSet(h, name, [by |-> "callee", state |-> "open"])

ExitStackClose_Leak(h, stack) == h

\* Leaving `with ExitStack() as ctx`: every context entered is closed, on
\* return and on exception alike.
ExitStackClose(h, stack) ==
    [x \in DOMAIN h |-> IF x \in stack THEN [h[x] EXCEPT !.state = "closed"] ELSE h[x]]

\* The handles before a call on `source`: an open handle of the caller's, or
\* none when the source is a path.
HandlesBefore(source_is_path) ==
    IF source_is_path THEN NoHandles
    ELSE DictSet(NoHandles, H_dataset, [by |-> "caller", state |-> "open"])

(***************************************************************************)
(* create_stac_asset (stac.py 476-564).                                    *)
(* b: [source_is_path, ds, fault, asset_roles, asset_media_type,           *)
(*     asset_href, with_proj, with_raster, with_eo]                        *)
(* `fault` is what the environment makes fail: "open" (rasterio.open),      *)
(* "proj" (reading the projection), "read" (reading or histogramming a     *)
(* band), or "none".                                                       *)
(***************************************************************************)
\* extra_fields.update({f"proj:{name}": value ...}) without "geometry" (520-526).
ProjExtraFields(dataset) ==
    LET proj_info == DictPop(GetProjectionInfo(dataset), N_geometry)
    IN  [k \in {S_proj \o name : name \in DOMAIN proj_info} |->
            proj_info[SubSeq(k, Len(S_proj) + 1, Len(k))]]

MergeBands_RasterOnly(raster_bands, eo_bands) ==
    [i \in 1..Len(raster_bands) |-> raster_bands[i]]

\* The band merge (542-552).
MergeBands(raster_bands, eo_bands) ==
    LET band_count == IF Len(raster_bands) >= Len(eo_bands) THEN Len(raster_bands) ELSE Len(eo_bands)
    IN  [i \in 1..band_count |->
            LET b0 == [x \in {} |-> None]
                b1 == IF i <= Len(eo_bands) THEN DictUpdate(b0, eo_bands[i]) ELSE b0
                b2 == IF i <= Len(raster_bands) THEN DictUpdate(b1, raster_bands[i]) ELSE b1
            IN  IF "name" \in DOMAIN b2 THEN b2 ELSE DictSet(b2, "name", BandName(i))]

NoAsset ==
    [oid |-> 0, href |-> <<>>, media_type |-> None, roles |-> <<>>,
     title |-> None, description |-> None, extra_fields |-> EmptyDict]

\* The asset and its bands, once the band records are there (536-564).
AssetOf(b, dataset, raster_info, eo_bands, h1, stack) ==
    LET media_type == IF b.asset_media_type = "auto" THEN GetMediaType(dataset) ELSE b.asset_media_type
        e1 == IF b.with_proj THEN ProjExtraFields(dataset) ELSE EmptyDict
        raster_bands == raster_info.meta
        has_bands == raster_bands # <<>> \/ eo_bands # <<>>
    IN  IF b.with_raster /\ (b.fault = "read" \/ raster_info.exc # None)
        THEN [exc |-> "ValueError", asset |-> NoAsset, bands |-> <<>>,
              handles |-> ExitStackClose(h1, stack)]
        ELSE WithValue(IF has_bands THEN MergeBands(raster_bands, eo_bands) ELSE <<>>,
                       LAMBDA bands :
                 [exc |-> None,
                  asset |-> [oid |-> 0,
                             href |-> IF b.asset_href # <<>> THEN b.asset_href ELSE dataset.name,
                             media_type |-> media_type,
                             roles |-> b.asset_roles,
                             title |-> None,
                             description |-> None,
                             extra_fields |-> IF has_bands THEN DictSet(e1, S_bands, bands)
                                              ELSE e1],
                  bands |-> bands,
                  handles |-> ExitStackClose(h1, stack)])

CreateStacAsset(b) ==
    LET opens == b.source_is_path
        h0 == HandlesBefore(b.source_is_path)
        h1 == IF opens THEN OpenHandle(h0, H_dataset) ELSE h0
        stack == IF opens THEN {H_dataset} ELSE {}
        dataset == b.ds
        \* histogram_bins=10, histogram_range=None unless the caller says otherwise
        histogram_bins == IF "histogram_bins" \in DOMAIN b THEN b.histogram_bins ELSE 10
        histogram_range == IF "histogram_range" \in DOMAIN b THEN b.histogram_range ELSE <<>>
    IN  IF opens /\ b.fault = "open"
        THEN [exc |-> "RasterioIOError", asset |-> NoAsset, bands |-> <<>>, handles |-> h0]
        ELSE IF b.with_proj /\ b.fault = "proj"
        THEN [exc |-> "CRSError", asset |-> NoAsset, bands |-> <<>>,
              handles |-> ExitStackClose(h1, stack)]
        ELSE WithValue(IF b.with_raster /\ b.fault # "read"
                       THEN GetRasterInfo(dataset, histogram_bins, histogram_range)
                       ELSE [exc |-> None, warned |-> FALSE, meta |-> <<>>],
                       LAMBDA raster_info :
             WithValue(IF b.with_eo THEN GetEobandsInfo(dataset) ELSE <<>>, LAMBDA eo_bands :
                 AssetOf(b, dataset, raster_info, eo_bands, h1, stack)))

(***************************************************************************)
(* create_stac_item (stac.py 567-801).                                     *)
(* a: [source_is_path, ds, fault, input_datetime, extensions, collection,  *)
(*     properties, assets_given, assets, asset_name, asset_roles,          *)
(*     asset_media_type, asset_href, with_proj, with_raster, with_eo,      *)
(*     with_private, geom_densify_pts]                                     *)
(* `assets_given` is FALSE for assets=None, and then `assets` is <<>>.     *)
(* `fault`: "open" (rasterio.open), "vrt" (WarpedVRT), "warp"              *)
(* (transform_geom), "read" (band read / histogram), "antimeridian"        *)
(* (fix_geojson), or "none".                                               *)
(* A property value is [kind, s, d]: a scalar s, or an object d.           *)
(***************************************************************************)
NoObj == [x \in {} |-> ""]

Scalar(s) == [kind |-> "scalar", s |-> s, d |-> NoObj]

Object(d) == [kind |-> "object", s |-> "", d |-> d]

PROJECTION_EXT == "https://stac-extensions.github.io/projection/v2.0.0/schema.json"
RASTER_EXT == "https://stac-extensions.github.io/raster/v2.0.0/schema.json"
EO_EXT == "https://stac-extensions.github.io/eo/v2.0.0/schema.json"

\* WarpedVRT(dataset, src_crs=dataset.gcps[1], src_transform=from_gcps(...)) (629-635).
WarpedVRT(dataset) ==
    [dataset EXCEPT !.id = "vrt",
                    !.crs = dataset.gcps_crs,
                    !.gcps_crs = None,
                    !.bounds = BoundsOf(dataset.gcps_crs),
                    !.shape = "shape(vrt)",
                    !.transform = "transform(vrt)"]

NoGeom == [type |-> "None", coordinates |-> <<>>]

\* The densified ring (82-96): densify_pts steps along each of the 4 edges,
\* linearly interpolated, 4 * densify_pts + 1 points.
Densify(geom, densify_pts) ==
    LET ring == geom.coordinates[1]
        at(k) == LET e == k \div densify_pts
                     t == k % densify_pts
                 IN  IF e + 1 = Len(ring) THEN ring[Len(ring)]
                     ELSE <<ring[e + 1][1] + ((ring[e + 2][1] - ring[e + 1][1]) * t) \div densify_pts,
                            ring[e + 1][2] + ((ring[e + 2][2] - ring[e + 1][2]) * t) \div densify_pts>>
    IN  [type |-> "Polygon",
         coordinates |-> << [i \in 1..((Len(ring) - 1) * densify_pts + 1) |-> at(i - 1)] >>]

\* warp.transform_geom(src_dst.crs, EPSG_4326, geom) (98): every point is
\* reprojected; a projected CRS is stood for by one whose kilometres map to
\* degrees as below, the graticule bending with the northing.
ToGeographic(crs, pt) ==
    IF IsGeographic(crs) THEN pt
    ELSE <<(pt[1] - 500) \div (100 - pt[2] \div 100) - 57, pt[2] \div 100 - 10>>

TransformGeom(crs, geom) ==
    [type |-> geom.type,
     coordinates |-> [r \in 1..Len(geom.coordinates) |->
                         [i \in 1..Len(geom.coordinates[r]) |->
                             ToGeographic(crs, geom.coordinates[r][i])]]]

\* rasterio.features.bounds(geom): (left, bottom, right, top) of the points.
FeatureBounds(geom) ==
    LET pts == UNION {{geom.coordinates[r][i] : i \in 1..Len(geom.coordinates[r])} :
                         r \in 1..Len(geom.coordinates)}
        Min(S) == CHOOSE x \in S : \A y \in S : x <= y
        Max(S) == CHOOSE x \in S : \A y \in S : y <= x
    IN  <<Min({q[1] : q \in pts}), Min({q[2] : q \in pts}),
          Max({q[1] : q \in pts}), Max({q[2] : q \in pts})>>

\* The branch of a dataset with a CRS (78-99).
ReprojectedGeom(src_dst, densify_pts, fault) ==
    IF fault = "warp"
    THEN [exc |-> "CRSError", warned |-> FALSE, bbox |-> <<>>, footprint |-> NoGeom]
    ELSE \* the edges are densified only off the geographic CRS
         WithValue(BboxToGeom(src_dst.bounds), LAMBDA geom0 :
         WithValue(IF ~IsGeographic(src_dst.crs) /\ densify_pts # 0
                   THEN Densify(geom0, densify_pts) ELSE geom0, LAMBDA geom1 :
         WithValue(TransformGeom(src_dst.crs, geom1), LAMBDA geom :
             [exc |-> None, warned |-> FALSE, bbox |-> FeatureBounds(geom),
              footprint |-> geom])))

\* The branch of a dataset without CRS (101-106): a warning and the whole globe.
WholeGlobe ==
    [exc |-> None, warned |-> TRUE, bbox |-> <<-180, -90, 180, 90>>,
     footprint |-> BboxToGeom(<<-180, -90, 180, 90>>)]

GetDatasetGeom_CrsFirst(src_dst, densify_pts, fault) ==
    IF src_dst.crs = None THEN WholeGlobe
    ELSE IF densify_pts < 0
    THEN [exc |-> "ValueError", warned |-> FALSE, bbox |-> <<>>, footprint |-> NoGeom]
    ELSE ReprojectedGeom(src_dst, densify_pts, fault)

GetDatasetGeom_PixelBounds(src_dst, densify_pts, fault) ==
    IF densify_pts < 0
    THEN [exc |-> "ValueError", warned |-> FALSE, bbox |-> <<>>, footprint |-> NoGeom]
    ELSE IF src_dst.crs # None
    THEN ReprojectedGeom(src_dst, densify_pts, fault)
    ELSE [exc |-> None, warned |-> TRUE, bbox |-> src_dst.bounds,
          footprint |-> BboxToGeom(src_dst.bounds)]

\* get_dataset_geom (stac.py 67-108).
GetDatasetGeom(src_dst, densify_pts, fault) ==
    IF densify_pts < 0
    THEN [exc |-> "ValueError", warned |-> FALSE, bbox |-> <<>>, footprint |-> NoGeom]
    ELSE IF src_dst.crs # None
    THEN ReprojectedGeom(src_dst, densify_pts, fault)
    ELSE WholeGlobe

\* antimeridian.fix_geojson (707): a ring with an edge jumping more than
\* 180 degrees of longitude (a jump of exactly 360 is the whole globe) is
\* split in two along the antimeridian; any other is returned as it is.
FixGeojson(geom) ==
    LET ring == geom.coordinates[1]
        jump(i) == IF ring[i + 1][1] >= ring[i][1] THEN ring[i + 1][1] - ring[i][1]
                   ELSE ring[i][1] - ring[i + 1][1]
        east == [i \in 1..Len(ring) |-> IF ring[i][1] < 0 THEN <<ring[i][1] + 360, ring[i][2]>> ELSE ring[i]]
    IN  IF \E i \in 1..(Len(ring) - 1) : jump(i) > 180 /\ jump(i) # 360
        THEN [type |-> "MultiPolygon", coordinates |-> <<ring, east>>]
        ELSE geom

\* pystac.utils.str_to_datetime on a tag value.
StrToDatetime(s) ==
    CASE s = "2011-05-01 13:00:00" -> "2011-05-01T13:00:00Z"
      [] s = "2023-10-30 11:37:13" -> "2023-10-30T11:37:13Z"
      [] s = "2020-01-01T00:00:00Z" -> "2020-01-01T00:00:00Z"
      [] OTHER -> "ValueError"

\* The datetime of the Item (646-661).
ResolveDatetime(src_dst, properties, input_datetime) ==
    IF S_start_datetime \notin DOMAIN properties /\ S_end_datetime \notin DOMAIN properties
    THEN LET acq_date == src_dst.tags.ACQUISITIONDATETIME
             tiff_date == src_dst.tags.TIFFTAG_DATETIME
             dst_date == IF acq_date \notin {None, ""} THEN acq_date ELSE tiff_date
             parsed == IF dst_date \notin {None, ""} THEN StrToDatetime(dst_date) ELSE None
             dst_datetime == IF parsed = "ValueError" THEN None ELSE parsed
         IN  [warned |-> parsed = "ValueError",
              value |-> IF input_datetime # None THEN input_datetime
                        ELSE IF dst_datetime # None THEN dst_datetime
                        ELSE "now"]
    ELSE [warned |-> FALSE, value |-> input_datetime]

Dedup_Keep(s) == s

\* list(dict.fromkeys(extensions)) (688).
RECURSIVE Dedup(_)
Dedup(s) ==
    IF s = <<>> THEN <<>>
    ELSE LET front == Dedup(SubSeq(s, 1, Len(s) - 1))
         IN  IF SeqHas(front, s[Len(s)]) THEN front ELSE Append(front, s[Len(s)])

\* The extensions list after the appends of 668-682.
AppendExtensions(extensions, with_proj, with_raster, with_eo) ==
    extensions
        \o (IF with_proj THEN <<PROJECTION_EXT>> ELSE <<>>)
        \o (IF with_raster THEN <<RASTER_EXT>> ELSE <<>>)
        \o (IF with_eo THEN <<EO_EXT>> ELSE <<>>)

\* int(cloudcover)
IntOf(s) == IF s \in {"0", "12", "100"} THEN s ELSE "ValueError"

AttachAssets_FixedName(assets, generated, asset_name) ==
    IF assets # <<>> THEN assets
    ELSE IF generated # <<>> THEN <<[key |-> S_asset, asset |-> generated[1]]>>
    ELSE <<>>

\* item.assets after 741-746.
AttachAssets(assets, generated, asset_name) ==
    IF assets # <<>> THEN assets
    ELSE IF generated # <<>> THEN <<[key |-> asset_name, asset |-> generated[1]]>>
    ELSE <<>>

PrivateData_Lenient(properties) ==
    LET given == S_private \in DOMAIN properties /\ properties[S_private].kind = "object"
        private_data == IF given THEN properties[S_private] ELSE Object(NoObj)
    IN  [exc |-> None,
         properties |->
             DictSet(properties, S_private,
                     Object(IF "hidden" \in DOMAIN private_data.d
                            THEN private_data.d
                            ELSE DictSet(private_data.d, "hidden", "True")))]

\* with_private (721-729): the properties, or "ValueError".
PrivateData(properties) ==
    LET given == S_private \in DOMAIN properties /\ properties[S_private] # Scalar(None)
        private_data == IF given THEN properties[S_private] ELSE Object(NoObj)
    IN  IF private_data.kind # "object" THEN [exc |-> "ValueError", properties |-> properties]
        ELSE [exc |-> None,
              properties |->
                  DictSet(properties, S_private,
                          Object(IF "hidden" \in DOMAIN private_data.d
                                 THEN private_data.d
                                 ELSE DictSet(private_data.d, "hidden", "True")))]

NoItem ==
    [id |-> <<>>, geometry |-> NoGeom, bbox |-> <<>>, collection |-> None,
     stac_extensions |-> <<>>, datetime |-> None, properties |-> EmptyDict,
     links |-> <<>>, assets |-> <<>>]

\* What the caller sees when the call raises.
Raised(exc, h, properties, extensions, builder_calls) ==
    [exc |-> exc, item |-> NoItem, handles |-> h, properties |-> properties,
     extensions |-> extensions, builder_calls |-> builder_calls]

\* os.path.basename
Basename(path) ==
    LET seps == {i \in 1..Len(path) : path[i] = "/"}
    IN  IF seps = {} THEN path
        ELSE SubSeq(path, (CHOOSE i \in seps : \A j \in seps : j <= i) + 1, Len(path))

\* create_stac_item once the asset of the source, `gen`, is there.
ItemOf(a, gen) ==
    LET opens == a.source_is_path
        h0 == HandlesBefore(opens)
        h1 == IF opens THEN OpenHandle(h0, H_dataset) ELSE h0
        stack1 == IF opens THEN {H_dataset} ELSE {}
        dataset == a.ds
        has_gcps == dataset.gcps_crs # None
        src_dst == IF has_gcps THEN WarpedVRT(dataset) ELSE dataset
        h2 == IF has_gcps THEN OpenHandle(h1, H_vrt) ELSE h1
        stack2 == stack1 \cup (IF has_gcps THEN {H_vrt} ELSE {})
        \* `properties or {}`, `extensions or []`: the caller's object is the one
        \* mutated in place exactly when it is not empty.
        CallerProps(q) == IF a.properties = EmptyDict THEN a.properties ELSE q
        CallerExts(e) == IF a.extensions = <<>> THEN a.extensions ELSE e
        dataset_geom == GetDatasetGeom(src_dst, a.geom_densify_pts, a.fault)
        dt == ResolveDatetime(src_dst, a.properties, a.input_datetime)
        satellite_id == src_dst.tags.SATELLITEID
        p1 == IF satellite_id \notin {None, ""} /\ S_platform \notin DOMAIN a.properties
              THEN DictSet(a.properties, S_platform, Scalar(satellite_id))
              ELSE a.properties
        ext1 == AppendExtensions(a.extensions, a.with_proj, a.with_raster, a.with_eo)
        cloudcover == src_dst.tags.CLOUDCOVER
        cc == IF a.with_eo /\ cloudcover # None THEN IntOf(cloudcover) ELSE None
        p2 == IF cc \notin {None, "ValueError"} THEN DictSet(p1, S_cloud_cover, Scalar(cc)) ELSE p1
        extensions == Dedup(ext1)
        builds == a.assets = <<>>
        calls == IF builds THEN 1 ELSE 0
        closed == ExitStackClose(h2, stack2)
        priv == IF a.with_private THEN PrivateData(p2) ELSE [exc |-> None, properties |-> p2]
        p3 == priv.properties
        attached == AttachAssets(a.assets, IF builds THEN <<gen.asset>> ELSE <<>>, a.asset_name)
        p4 == CleanItemProperties(p3)
    IN  IF opens /\ a.fault = "open"
        THEN Raised("RasterioIOError", h0, a.properties, a.extensions, 0)
        ELSE IF has_gcps /\ a.fault = "vrt"
        THEN Raised("RasterioError", ExitStackClose(h1, stack1), a.properties, a.extensions, 0)
        ELSE IF dataset_geom.exc # None
        THEN Raised(dataset_geom.exc, closed, a.properties, a.extensions, 0)
        ELSE IF cc = "ValueError"
        THEN Raised("ValueError", closed, CallerProps(p1), CallerExts(ext1), 0)
        ELSE IF builds /\ gen.exc # None
        THEN Raised(gen.exc, closed, CallerProps(p2), CallerExts(ext1), calls)
        ELSE IF a.fault = "antimeridian"
        THEN Raised("AntimeridianError", closed, CallerProps(p2), CallerExts(ext1), calls)
        ELSE IF priv.exc # None
        THEN Raised(priv.exc, closed, CallerProps(p2), CallerExts(ext1), calls)
        ELSE [exc |-> None,
              item |-> [id |-> IF a.id # <<>> THEN a.id ELSE Basename(dataset.name),
                        geometry |-> FixGeojson(dataset_geom.footprint),
                        bbox |-> FeatureBounds(FixGeojson(dataset_geom.footprint)),
                        collection |-> a.collection,
                        stac_extensions |-> extensions,
                        datetime |-> dt.value,
                        properties |-> p4,
                        links |-> IF a.collection # None THEN <<a.collection>> ELSE <<>>,
                        assets |-> WithValue(attached, LAMBDA item_assets :
                                      PostProcessAssets(item_assets))],
              handles |-> closed,
              properties |-> CallerProps(p4),
              extensions |-> CallerExts(ext1),
              builder_calls |-> calls]

CreateStacItem(a) ==
    WithValue(IF a.assets = <<>>
              THEN CreateStacAsset([source_is_path |-> FALSE, ds |-> a.ds, fault |-> a.fault,
                                    asset_roles |-> a.asset_roles,
                                    asset_media_type |-> a.asset_media_type,
                                    asset_href |-> a.asset_href,
                                    with_proj |-> a.with_proj, with_raster |-> a.with_raster,
                                    with_eo |-> a.with_eo])
              ELSE [exc |-> None, asset |-> NoAsset, bands |-> <<>>, handles |-> NoHandles],
              LAMBDA gen : ItemOf(a, gen))

(***************************************************************************)
(* Paths and file names (os.path, str.lower, fnmatch).                     *)
(***************************************************************************)
\* os.path.join(root, f)
PathJoin(root, f) == root \o <<"/">> \o f

\* os.path.splitext(name)[0] for a bare file name: the extension starts at the
\* last dot, unless only dots come before it.
Stem(name) ==
    LET dots == {i \in 1..Len(name) : name[i] = "."}
    IN  IF dots = {} THEN name
        ELSE LET last == CHOOSE i \in dots : \A j \in dots : j <= i
             IN  IF \E j \in 1..(last - 1) : name[j] # "."
                 THEN SubSeq(name, 1, last - 1)
                 ELSE name

\* The components of a path.
RECURSIVE SplitPath(_)
SplitPath(path) ==
    LET seps == {i \in 1..Len(path) : path[i] = "/"}
    IN  IF seps = {} THEN <<path>>
        ELSE LET first == CHOOSE i \in seps : \A j \in seps : i <= j
             IN  <<SubSeq(path, 1, first - 1)>> \o SplitPath(SubSeq(path, first + 1, Len(path)))

RECURSIVE JoinPath(_)
JoinPath(parts) ==
    IF Len(parts) = 0 THEN <<".">>
    ELSE IF Len(parts) = 1 THEN parts[1]
    ELSE parts[1] \o <<"/">> \o JoinPath(Tail(parts))

\* os.path.relpath(path, start), both relative to the working directory and
\* free of "." and "..".
Relpath(path, start) ==
    LET p == SplitPath(path)
        t == SplitPath(start)
        common == CHOOSE n \in 0..Len(t) :
                    /\ n <= Len(p)
                    /\ \A i \in 1..n : p[i] = t[i]
                    /\ (n < Len(t) /\ n < Len(p) => p[n + 1] # t[n + 1])
    IN  JoinPath([i \in 1..(Len(t) - common) |-> <<".", ".">>] \o SubSeq(p, common + 1, Len(p)))

\* fnmatch.fnmatch(name, pattern) on POSIX, for patterns of literals, * and ?.
RECURSIVE Fnmatch(_, _)
Fnmatch(name, pattern) ==
    IF pattern = <<>> THEN name = <<>>
    ELSE IF pattern[1] = "*"
    THEN Fnmatch(name, Tail(pattern)) \/ (name # <<>> /\ Fnmatch(Tail(name), pattern))
    ELSE IF pattern[1] = "?"
    THEN name # <<>> /\ Fnmatch(Tail(name), Tail(pattern))
    ELSE name # <<>> /\ name[1] = pattern[1] /\ Fnmatch(Tail(name), Tail(pattern))

(***************************************************************************)
(* build_stac_assets (stac.py 364-473).                                    *)
(* b: [directory, walk, paths, patterns, asset_media_type, with_proj,      *)
(*     with_raster, with_eo]                                               *)
(* directory is <<>> for None; walk is what os.walk(directory) lists, in   *)
(* its order, as [root, name] entries; patterns is <<>> for None.          *)
(* What a path holds is in FileAt: [isfile, raster, crs, count, driver,    *)
(* fault].                                                                 *)
(***************************************************************************)
E_json == <<".", "j", "s", "o", "n">>
E_xml == <<".", "x", "m", "l">>
E_safe == <<".", "s", "a", "f", "e">>
E_ql_jpg == <<"q", "l", ".", "j", "p", "g">>
E_ql_jpeg == <<"q", "l", ".", "j", "p", "e", "g">>

F_dir == <<"d">>
F_sub == <<"d", "/", "s">>
F_image_tif == <<"i", "m", "a", "g", "e", ".", "t", "i", "f">>
F_thumb_jpg == <<"t", "h", "u", "m", "b", ".", "j", "p", "g">>
F_meta_json == <<"m", "e", "t", "a", ".", "j", "s", "o", "n">>
F_MTD_XML == <<"M", "T", "D", ".", "X", "M", "L">>
F_p_ql_JPG == <<"p", "-", "q", "l", ".", "J", "P", "G">>
F_ignored_txt == <<"i", "g", "n", "o", "r", "e", "d", ".", "t", "x", "t">>
F_hidden_tif == <<".", "h", ".", "t", "i", "f">>
F_bad_tif == <<"b", "a", "d", ".", "t", "i", "f">>
F_gray_png == <<"g", "r", "a", "y", ".", "p", "n", "g">>
F_lnk == <<"l", "n", "k">>
F_S2_SAFE == <<"S", "2", ".", "S", "A", "F", "E">>
F_image_json == <<"i", "m", "a", "g", "e", ".", "j", "s", "o", "n">>
F_inside_jpg == <<"d", "/", "t", "h", "u", "m", "b", ".", "j", "p", "g">>
F_sibling_tif == <<"d", "d", "/", "i", "m", "a", "g", "e", ".", "t", "i", "f">>
F_other_tif == <<"o", "/", ".", "x", ".", "t", "i", "f">>

NotRaster == [isfile |-> TRUE, raster |-> FALSE, crs |-> None, count |-> 0, driver |-> None, fault |-> "none"]

Raster(crs, count, driver, fault) ==
    [isfile |-> TRUE, raster |-> TRUE, crs |-> crs, count |-> count, driver |-> driver, fault |-> fault]

\* The walk entries of the directory the model uses.
DirEntries ==
    {[root |-> F_dir, name |-> F_image_tif], [root |-> F_dir, name |-> F_thumb_jpg],
     [root |-> F_dir, name |-> F_meta_json], [root |-> F_dir, name |-> F_MTD_XML],
     [root |-> F_sub, name |-> F_p_ql_JPG], [root |-> F_dir, name |-> F_ignored_txt],
     [root |-> F_dir, name |-> F_hidden_tif], [root |-> F_sub, name |-> F_bad_tif],
     [root |-> F_dir, name |-> F_gray_png], [root |-> F_dir, name |-> F_lnk],
     [root |-> F_dir, name |-> F_S2_SAFE], [root |-> F_sub, name |-> F_image_json]}

\* What each path holds.
FileAt(fpath) ==
    LET name == Basename(fpath)
    IN  CASE name = F_image_tif -> Raster("EPSG:32621", 1, "GTiff", "none")
          [] name = F_thumb_jpg -> Raster(None, 3, "JPEG", "none")
          [] name = F_hidden_tif -> Raster("EPSG:32621", 1, "GTiff", "none")
          [] name = F_bad_tif -> Raster("EpsgOnly", 1, "GTiff", "proj")
          [] name = F_gray_png -> Raster(None, 1, "PNG", "none")
          [] name = F_p_ql_JPG -> Raster("EPSG:32621", 1, "JPEG", "none")
          [] name = Basename(F_other_tif) -> Raster("EPSG:32621", 3, "GTiff", "none")
          [] name = F_lnk -> [NotRaster EXCEPT !.isfile = FALSE]
          [] OTHER -> NotRaster

\* The dataset rasterio.open(fpath) gives.
FileDataset(fpath) ==
    LET f == FileAt(fpath)
    IN  [id |-> "dataset", name |-> fpath, crs |-> f.crs, gcps_crs |-> None,
         driver |-> f.driver, bounds |-> BoundsOf(f.crs), shape |-> "shape(dataset)",
         transform |-> "transform(dataset)",
         bands |-> [i \in 1..f.count |-> Band("uint8")],
         nodata |-> NoNumber, area_or_point |-> <<>>, imagery |-> NoTagDict,
         tags |-> [ACQUISITIONDATETIME |-> None, TIFFTAG_DATETIME |-> None,
                   SATELLITEID |-> None, CLOUDCOVER |-> None]]

\* files after 380-388.
WalkFiles(b) ==
    LET kept == SelectSeq(b.walk, LAMBDA e : ~StartsWith(e.name, <<".">>))
    IN  b.paths \o [i \in 1..Len(kept) |-> PathJoin(kept[i].root, kept[i].name)]

Matched_FilenameOnly(f, b) ==
    \E i \in 1..Len(b.patterns) : Fnmatch(Basename(f), b.patterns[i])

\* `matched` for one file (393-405).
Matched(f, b) ==
    LET rel_path == IF b.directory # <<>> THEN Relpath(f, b.directory) ELSE f
        filename == Basename(f)
    IN  \E i \in 1..Len(b.patterns) :
            IF Contains(b.patterns[i], <<"/">>)
            THEN Fnmatch(rel_path, b.patterns[i])
            ELSE Fnmatch(filename, b.patterns[i])

\* filtered_files (390-410).
FilteredFiles(b) ==
    IF b.patterns # <<>>
    THEN SelectSeq(WalkFiles(b), LAMBDA f : Matched(f, b))
    ELSE WalkFiles(b)

Href_AlwaysRelative(fpath, b) ==
    IF b.directory # <<>> THEN Relpath(fpath, b.directory) ELSE Basename(fpath)

\* href (416-419).
Href(fpath, b) ==
    IF b.directory # <<>> /\ StartsWith(fpath, b.directory)
    THEN Relpath(fpath, b.directory)
    ELSE Basename(fpath)

\* key (421).
AssetKey(fpath) == Stem(Basename(fpath))

SidecarAsset(oid, href, media_type, roles) ==
    [oid |-> oid, href |-> href, media_type |-> media_type, roles |-> roles,
     title |-> None, description |-> None, extra_fields |-> EmptyDict]

FileRule_CaseSensitive(fpath) ==
    IF EndsWith(fpath, E_json) \/ EndsWith(fpath, E_xml) \/ EndsWith(fpath, E_safe)
    THEN "metadata"
    ELSE IF EndsWith(fpath, E_ql_jpg) \/ EndsWith(fpath, E_ql_jpeg)
    THEN "quicklook"
    ELSE "raster"

\* The rule of 423-465 that handles a path.
FileRule(fpath) ==
    LET lower == Lower(fpath)
    IN  IF EndsWith(lower, E_json) \/ EndsWith(lower, E_xml) \/ EndsWith(lower, E_safe)
        THEN "metadata"
        ELSE IF EndsWith(lower, E_ql_jpg) \/ EndsWith(lower, E_ql_jpeg)
        THEN "quicklook"
        ELSE "raster"

\* roles of a raster (448-450).
RasterRoles(src) ==
    IF src.crs = None /\ Len(src.bands) = 3 THEN <<"thumbnail">> ELSE <<"data">>

\* One turn of the loop of 412-471 on acc = [assets, handles, log]; n numbers
\* the assets made.
ProcessFile(acc, fpath, n, b) ==
    LET f == FileAt(fpath)
        href == Href(fpath, b)
        key == AssetKey(fpath)
        rule == FileRule(fpath)
        Entry(what, opened, made) ==
            [path |-> fpath, rule |-> what, opened |-> opened, made |-> made]
        src == FileDataset(fpath)
        built == CreateStacAsset([source_is_path |-> FALSE, ds |-> src, fault |-> f.fault,
                                  asset_roles |-> RasterRoles(src),
                                  asset_media_type |-> b.asset_media_type,
                                  asset_href |-> href,
                                  with_proj |-> b.with_proj, with_raster |-> b.with_raster,
                                  with_eo |-> b.with_eo])
        opened == ExitStackClose(OpenHandle(acc.handles, fpath), {fpath})
    IN  IF ~f.isfile
        THEN [acc EXCEPT !.log = Append(@, Entry("notfile", FALSE, <<>>))]
        ELSE IF rule = "metadata"
        THEN LET asset == SidecarAsset(n, href,
                              IF EndsWith(Lower(fpath), E_json) THEN "application/json"
                              ELSE "application/xml", <<"metadata">>)
             IN  [acc EXCEPT !.assets = OrderedSet(@, key, asset),
                             !.log = Append(@, Entry(rule, FALSE, <<asset>>))]
        ELSE IF rule = "quicklook"
        THEN LET asset == SidecarAsset(n, href, "image/jpeg", <<"thumbnail">>)
             IN  [acc EXCEPT !.assets = OrderedSet(@, key, asset),
                             !.log = Append(@, Entry(rule, FALSE, <<asset>>))]
        ELSE IF ~f.raster
        THEN [acc EXCEPT !.log = Append(@, Entry("RasterioIOError", FALSE, <<>>))]
        ELSE IF built.exc # None
        THEN [acc EXCEPT !.handles = opened,
                         !.log = Append(@, Entry(built.exc, TRUE, <<>>))]
        ELSE LET asset == [built.asset EXCEPT !.oid = n]
             IN  [acc EXCEPT !.assets = OrderedSet(@, key, asset),
                             !.handles = opened,
                             !.log = Append(@, Entry(rule, TRUE, <<asset>>))]

RECURSIVE ProcessFiles(_, _, _, _)
ProcessFiles(acc, files, n, b) ==
    IF n > Len(files) THEN acc
    ELSE WithValue(ProcessFile(acc, files[n], n, b),
                   LAMBDA next : ProcessFiles(next, files, n + 1, b))

\* files, then the loop over them.
CollectAssets(b) ==
    WithValue(FilteredFiles(b), LAMBDA filtered_files :
        ProcessFiles([assets |-> <<>>, handles |-> NoHandles, log |-> <<>>],
                     filtered_files, 1, b))

BuildStacAssets_Propagating(b) ==
    WithValue(CollectAssets(b), LAMBDA acc :
        LET failed == {i \in 1..Len(acc.log) :
                          acc.log[i].made = <<>> /\ acc.log[i].rule # "notfile"}
        IN  IF failed # {}
            THEN [exc |-> acc.log[CHOOSE i \in failed : \A j \in failed : i <= j].rule,
                  assets |-> <<>>, handles |-> acc.handles, log |-> acc.log]
            ELSE [exc |-> None, assets |-> acc.assets, handles |-> acc.handles,
                  log |-> acc.log])

BuildStacAssets(b) ==
    WithValue(CollectAssets(b), LAMBDA acc :
        [exc |-> None, assets |-> acc.assets, handles |-> acc.handles, log |-> acc.log])

(***************************************************************************)
(* The recursive mode of the command line (cli.py 232-293).                *)
(* c: [input, input_isdir, walk, patterns, with_proj, with_raster,         *)
(*     with_eo, with_private, properties]                                  *)
(***************************************************************************)
\* The source the Item geometry is read from (250-266): <<>> for None.
CliSource(input, assets) ==
    LET data == {i \in 1..Len(assets) : SeqHas(assets[i].asset.roles, "data")}
        other == {i \in 1..Len(assets) : ~SeqHas(assets[i].asset.roles, "metadata")}
        First(S) == CHOOSE i \in S : \A j \in S : i <= j
    IN  IF data # {} THEN <<PathJoin(input, assets[First(data)].asset.href)>>
        ELSE IF other # {} THEN <<PathJoin(input, assets[First(other)].asset.href)>>
        ELSE <<>>

\* create_stac_item's arguments for a source path and the collected assets.
CliItemArgs(c, source, assets, defaults) ==
    [defaults EXCEPT
        !.source_is_path = TRUE,
        !.ds = FileDataset(source),
        !.fault = IF FileAt(source).isfile /\ FileAt(source).raster THEN "none" ELSE "open",
        !.id = Basename(c.input),
        !.properties = c.properties,
        !.assets_given = TRUE,
        !.assets = assets,
        !.asset_media_type = None,
        !.with_proj = c.with_proj,
        !.with_raster = c.with_raster,
        !.with_eo = c.with_eo,
        !.with_private = c.with_private]

CliNoItem ==
    [exc |-> "not called", item |-> NoItem, handles |-> NoHandles, properties |-> EmptyDict,
     extensions |-> <<>>, builder_calls |-> 0]

\* After build_stac_assets returned `built` (246-293).
CliAfterCollect(c, defaults, built) ==
    LET source == CliSource(c.input, built.assets)
        Exit(code, message, item_args, h, r) ==
            [exit_code |-> code, message |-> message, collected |-> TRUE,
             assets |-> built.assets, handles |-> h, item_args |-> item_args, made |-> r]
    IN  IF built.assets = <<>>
        THEN Exit(1, "No valid files found in directory matching criteria.", defaults,
                  built.handles, CliNoItem)
        ELSE IF source = <<>>
        THEN Exit(1, "No valid raster asset found to derive Item geometry.", defaults,
                  built.handles, CliNoItem)
        ELSE WithValue(CliItemArgs(c, source[1], built.assets, defaults), LAMBDA item_args :
             WithValue(CreateStacItem(item_args), LAMBDA made :
                 Exit(IF made.exc # None THEN 1 ELSE 0,
                      IF made.exc # None THEN made.exc ELSE "",
                      item_args, DictUpdate(built.handles, made.handles), made)))

CliRecursive(c, defaults) ==
    IF ~c.input_isdir
    THEN [exit_code |-> 2, message |-> "Input must be a directory when using --recursive.",
          collected |-> FALSE, assets |-> <<>>, handles |-> NoHandles,
          item_args |-> defaults, made |-> CliNoItem]
    ELSE WithValue(BuildStacAssets([directory |-> c.input, walk |-> c.walk, paths |-> <<>>,
                                    patterns |-> c.patterns, asset_media_type |-> None,
                                    with_proj |-> TRUE, with_raster |-> c.with_raster,
                                    with_eo |-> c.with_eo]),
                   LAMBDA built : CliAfterCollect(c, defaults, built))

(***************************************************************************)
(* The options of the command line (cli.py 37-52, 192-215) and its         *)
(* single-file mode (295-321).  An option given several times is a         *)
(* sequence of [k, v] pairs, v the value _parse_jsonish read.              *)
(* c: [property, private_property, with_private]                           *)
(***************************************************************************)
\* _cb_key_val (37-52).
CbKeyVal(value) ==
    LET out[n \in 0..Len(value)] ==
            IF n = 0 THEN EmptyDict
            ELSE LET k == value[n].k
                     parsed == value[n].v
                 IN  IF /\ k \in DOMAIN out[n - 1]
                        /\ out[n - 1][k].kind = "object"
                        /\ parsed.kind = "object"
                     THEN DictSet(out[n - 1], k, Object(DictUpdate(out[n - 1][k].d, parsed.d)))
                     ELSE DictSet(out[n - 1], k, parsed)
    IN  out[Len(value)]

\* with_private and property after 192-215, or the BadParameter.
CliPrivate(property, private_property, with_private) ==
    LET enabled == with_private \/ S_private \in DOMAIN property \/ DOMAIN private_property # {}
        given == IF S_private \in DOMAIN property THEN property[S_private].d ELSE NoObj
        base_private ==
            DictUpdate(given, [k \in DOMAIN private_property |-> private_property[k].s])
    IN  IF S_private \in DOMAIN property /\ property[S_private].kind # "object"
        THEN [exc |-> "BadParameter", property |-> property, with_private |-> enabled]
        ELSE [exc |-> None,
              property |-> IF enabled THEN DictSet(property, S_private, Object(base_private))
                           ELSE property,
              with_private |-> enabled]

\* rio stac INPUT with -p, -P and --with-private-data.
CliSingle(c, defaults) ==
    WithValue(CliPrivate(CbKeyVal(c.property), CbKeyVal(c.private_property), c.with_private),
              LAMBDA opts :
        IF opts.exc # None
        THEN [exit_code |-> 2, message |-> "When provided, '_private' must be a JSON object.",
              collected |-> FALSE, assets |-> <<>>, handles |-> NoHandles,
              item_args |-> defaults, made |-> CliNoItem]
        ELSE WithValue([defaults EXCEPT !.properties = opts.property,
                                        !.with_private = opts.with_private,
                                        !.with_proj = TRUE,
                                        !.with_raster = TRUE,
                                        !.with_eo = TRUE],
                       LAMBDA item_args :
             WithValue(CreateStacItem(item_args), LAMBDA made :
                 [exit_code |-> IF made.exc # None THEN 1 ELSE 0,
                  message |-> IF made.exc # None THEN made.exc ELSE "",
                  collected |-> FALSE, assets |-> <<>>, handles |-> made.handles,
                  item_args |-> item_args, made |-> made])))

(***************************************************************************)
(* The inputs the model draws from.                                        *)
(***************************************************************************)
S_dataset_tif == <<"d", "/", "a", ".", "t", "i", "f">>
S_empty == <<>>
S_xql == <<"x", "q", "l">>
S_s_ql1 == <<"s", "-", "q", "l", "1">>

NoTags == [ACQUISITIONDATETIME |-> None, TIFFTAG_DATETIME |-> None,
           SATELLITEID |-> None, CLOUDCOVER |-> None]

Dataset(crs, gcps_crs, nbands, tags) ==
    [id |-> "dataset", name |-> S_dataset_tif, crs |-> crs, gcps_crs |-> gcps_crs,
     driver |-> "GTiff", bounds |-> BoundsOf(crs), shape |-> "shape(dataset)",
     transform |-> "transform(dataset)",
     bands |-> [i \in 1..nbands |-> Band("uint16")],
     nodata |-> NoNumber, area_or_point |-> <<>>, imagery |-> NoTagDict,
     tags |-> tags]

Faults == {"none", "open", "vrt", "warp", "read", "antimeridian"}

RoleLists ==
    {<<>>, <<"data">>, <<"thumbnail">>, <<"metadata">>, <<"overview", "thumbnail", "metadata">>}

AssetKeys == {S_empty, S_asset, S_xql, S_s_ql1, S_thumbnail}

X_none == EmptyDict

X_proj ==
    [k \in {S_proj_code, S_proj_shape, S_proj_centroid, S_bands, S_gsd} |->
        CASE k = S_proj_code -> "EPSG:32621"
          [] k = S_proj_shape -> "[10, 10]"
          [] k = S_proj_centroid -> "{lat: 0, lon: 0}"
          [] k = S_bands -> "[b1]"
          [] k = S_gsd -> "10"]

X_stats ==
    [k \in {S_stats, S_statistics, S_eo_bands, S_raster_bands, S_proj_wkt2, S_gsd} |->
        IF k = S_gsd THEN "10" ELSE "x"]

ExtraFieldSets == {X_none, X_proj, X_stats}

\* A caller's pystac.Asset; oid tells the objects apart.
SuppliedAsset(oid, roles, extra) ==
    [oid |-> oid, href |-> S_dataset_tif, media_type |-> None, roles |-> roles,
     title |-> "a title", description |-> None, extra_fields |-> extra]

\* The assets mappings of n entries: distinct keys, in every order.
RECURSIVE AssetsFrom(_, _, _)
AssetsFrom(n, roles, extras) ==
    IF n = 0 THEN {<<>>}
    ELSE {Append(m, [key |-> k, asset |-> SuppliedAsset(n, r, x)]) :
            m \in AssetsFrom(n - 1, roles, extras),
            k \in AssetKeys, r \in roles, x \in extras}

AssetMappings(n) == AssetsFrom(n, RoleLists, ExtraFieldSets)

DistinctKeys(m) == \A i, j \in 1..Len(m) : m[i].key = m[j].key => i = j

SCI_EXT == "https://stac-extensions.github.io/scientific/v1.0.0/schema.json"

ExtensionLists ==
    {<<>>, <<SCI_EXT>>, <<SCI_EXT, SCI_EXT>>, <<PROJECTION_EXT, SCI_EXT>>,
     <<EO_EXT, SCI_EXT, RASTER_EXT, EO_EXT>>}

\* -p pairs and -P pairs.
PropertyPairs ==
    {[k |-> S_private, v |-> Object([note |-> "secret"])],
     [k |-> S_private, v |-> Object([user |-> "me", note |-> "other"])],
     [k |-> S_private, v |-> Object([hidden |-> "False"])],
     [k |-> S_private, v |-> Scalar("secret")],
     [k |-> S_sci_citation, v |-> Scalar("A nice image")]}

PrivatePairs ==
    {[k |-> "hidden", v |-> Scalar("True")], [k |-> "hidden", v |-> Scalar("False")],
     [k |-> "note", v |-> Scalar("mine")]}

PairLists(pairs, n) == UNION {[1..k -> pairs] : k \in 0..n}

P_none == EmptyDict

P_sci == [k \in {S_sci_citation} |-> Scalar("A nice image")]

P_proj ==
    [k \in {S_sci_citation, S_proj_code, S_proj_centroid} |-> Scalar("x")]

P_start == [k \in {S_start_datetime} |-> Scalar("2019-01-01T00:00:00Z")]

P_private_obj == [k \in {S_private} |-> Object([note |-> "secret"])]

P_private_bad == [k \in {S_private} |-> Scalar("secret")]
P_private_false == [k \in {S_private} |-> Scalar("False")]
P_private_hidden == [k \in {S_private} |-> Object([hidden |-> "False", note |-> "secret"])]

ItemDefaults ==
    [source_is_path |-> TRUE,
     ds |-> Dataset("EPSG:32621", None, 1, NoTags),
     fault |-> "none",
     id |-> <<>>,
     input_datetime |-> None,
     extensions |-> <<>>,
     collection |-> None,
     properties |-> P_none,
     assets_given |-> FALSE,
     assets |-> <<>>,
     asset_name |-> S_asset,
     asset_roles |-> <<>>,
     asset_media_type |-> "auto",
     asset_href |-> <<>>,
     with_proj |-> FALSE,
     with_raster |-> FALSE,
     with_eo |-> FALSE,
     with_private |-> FALSE,
     geom_densify_pts |-> 0]

(***************************************************************************)
(* The state machine: a caller makes one call.                              *)
(***************************************************************************)
NoArgs == [x \in {} |-> None]

Init ==
    /\ op = "idle"
    /\ args = NoArgs
    /\ ret = NoArgs
    /\ handles = NoHandles

DoCreateStacItem(a) ==
    \E r \in {CreateStacItem(a)} :
        /\ op' = "create_stac_item"
        /\ args' = a
        /\ ret' = r
        /\ handles' = r.handles

\* create_stac_item on a source, no assets mapping: sources, faults, options.
ItemFromSource ==
    /\ op = "idle"
    /\ \E source_is_path \in BOOLEAN, crs \in {None, "EPSG:32621", "LocalWkt"},
       gcps_crs \in {None, "EPSG:32621"}, fault \in Faults,
       densify \in {-1, 0, MaxDensify}, with_proj \in BOOLEAN, with_raster \in BOOLEAN,
       properties \in {P_none, P_private_obj, P_private_bad, P_private_false, P_private_hidden} :
        DoCreateStacItem([ItemDefaults EXCEPT
            !.source_is_path = source_is_path,
            !.ds = Dataset(crs, gcps_crs, 1, NoTags),
            !.fault = fault,
            !.geom_densify_pts = densify,
            !.with_proj = with_proj,
            !.with_raster = with_raster,
            !.with_private = properties # P_none,
            !.properties = properties])

\* create_stac_item with options: projection, properties, generated or supplied asset.
ItemWithOptions ==
    /\ op = "idle"
    /\ \E with_proj \in BOOLEAN, with_raster \in BOOLEAN,
       crs \in {None, "EPSG:32621", "LocalWkt"},
       properties \in {P_none, P_sci, P_proj},
       assets_given \in BOOLEAN,
       assets \in AssetMappings(0) \cup {m \in AssetMappings(1) : m[1].key = S_asset},
       asset_name \in {S_asset, S_xql, S_empty},
       asset_roles \in RoleLists :
        /\ (~assets_given => assets = <<>>)
        /\ DoCreateStacItem([ItemDefaults EXCEPT
               !.ds = Dataset(crs, None, 1, NoTags),
               !.with_proj = with_proj,
               !.with_raster = with_raster,
               !.properties = properties,
               !.assets_given = assets_given,
               !.assets = assets,
               !.asset_name = asset_name,
               !.asset_roles = asset_roles])

\* create_stac_item on a source with IMAGERY and TIFF tags.
ItemWithTags ==
    /\ op = "idle"
    /\ \E acq_date \in {None, "", "2011-05-01 13:00:00", "not-a-date"},
          tiff_date \in {None, "2023-10-30 11:37:13", "31/31/31"},
          satellite_id \in {None, "", "WV03"},
          cloudcover \in {None, "12", "n/a"},
          input_datetime \in {None, "2020-01-01T00:00:00Z"},
          properties \in {P_none, P_start},
          with_eo \in BOOLEAN :
           DoCreateStacItem([ItemDefaults EXCEPT
               !.ds = Dataset("EPSG:32621", None, 1,
                              [ACQUISITIONDATETIME |-> acq_date, TIFFTAG_DATETIME |-> tiff_date,
                               SATELLITEID |-> satellite_id, CLOUDCOVER |-> cloudcover]),
               !.input_datetime = input_datetime,
               !.properties = properties,
               !.with_eo = with_eo])

\* create_stac_item with the caller's extensions and the extension switches.
ItemWithExtensions ==
    /\ op = "idle"
    /\ \E extensions \in ExtensionLists, source_is_path \in BOOLEAN,
          with_proj \in BOOLEAN, with_raster \in BOOLEAN, with_eo \in BOOLEAN :
           DoCreateStacItem([ItemDefaults EXCEPT
               !.source_is_path = source_is_path,
               !.extensions = extensions,
               !.with_proj = with_proj,
               !.with_raster = with_raster,
               !.with_eo = with_eo])

\* create_stac_item with a caller's assets mapping.
ItemWithAssets ==
    /\ op = "idle"
    /\ \E n \in 1..MaxAssets :
        \E assets \in {m \in AssetsFrom(n, RoleLists \ {<<"data">>}, {X_proj, X_stats}) :
                            DistinctKeys(m)} :
            DoCreateStacItem([ItemDefaults EXCEPT
                !.assets_given = TRUE,
                !.assets = assets])

\* create_stac_item once more, same source and options, with the assets
\* mapping of the Item the first call returned; the caller's properties and
\* extensions objects are the ones the first call left.
ItemAgain ==
    /\ op = "create_stac_item"
    /\ ret.exc = None
    /\ ret.item.assets # <<>>
    /\ \E a \in {[args EXCEPT !.assets_given = TRUE,
                               !.assets = ret.item.assets,
                               !.properties = ret.properties,
                               !.extensions = ret.extensions]} :
           \E r \in {CreateStacItem(a)} :
               /\ op' = "create_stac_item again"
               /\ args' = a
               /\ ret' = r
               /\ handles' = r.handles

\* create_stac_asset on a path or on a caller's handle.
AssetFromSource ==
    /\ op = "idle"
    /\ \E source_is_path \in BOOLEAN, fault \in {"none", "open", "proj", "read"},
          crs \in {None, "EPSG:32621", "LocalWkt"},
          with_proj \in BOOLEAN, with_raster \in BOOLEAN, with_eo \in BOOLEAN,
          asset_roles \in {<<>>, <<"data">>}, nbands \in 1..2 :
           LET b == [source_is_path |-> source_is_path,
                     ds |-> Dataset(crs, None, nbands, NoTags), fault |-> fault,
                     asset_roles |-> asset_roles, asset_media_type |-> "auto",
                     asset_href |-> <<>>, with_proj |-> with_proj,
                     with_raster |-> with_raster, with_eo |-> with_eo]
           IN  \E r \in {CreateStacAsset(b)} :
                   /\ op' = "create_stac_asset"
                   /\ args' = b
                   /\ ret' = r
                   /\ handles' = r.handles

\* The lists os.walk may give: up to n of the entries, in any order.
Listings(n) == UNION {[1..k -> DirEntries] : k \in 0..n}

NoRepeat(w) == \A i, j \in 1..Len(w) : w[i] = w[j] => i = j

PatternLists ==
    {<<>>,
     <<<<"*", ".", "t", "i", "f">>>>,
     <<<<"*", ".", "t", "i", "f">>, <<"*", ".", "j", "s", "o", "n">>>>,
     <<<<"s", "/", "*">>>>,
     <<<<"*", "-", "q", "l", "*">>, <<"*", "/", "b", "?", "?", ".", "t", "i", "f">>>>,
     <<<<"o", "/", "*">>>>}

\* build_stac_assets on a directory, on explicit paths, or on both.
AssetsFromFiles ==
    /\ op = "idle"
    /\ \E walk \in {w \in Listings(MaxFiles) : NoRepeat(w)},
          with_directory \in BOOLEAN, paths \in {<<>>, <<F_other_tif>>, <<F_inside_jpg>>, <<F_sibling_tif>>},
          patterns \in PatternLists :
           /\ (~with_directory => walk = <<>>)
           /\ LET b == [directory |-> IF with_directory THEN F_dir ELSE <<>>,
                        walk |-> walk, paths |-> paths, patterns |-> patterns,
                        asset_media_type |-> "auto", with_proj |-> TRUE,
                        with_raster |-> FALSE, with_eo |-> FALSE]
              IN  \E r \in {BuildStacAssets(b)} :
                      /\ op' = "build_stac_assets"
                      /\ args' = b
                      /\ ret' = r
                      /\ handles' = r.handles

\* rio stac INPUT --recursive [--pattern ...]
StacRecursive ==
    /\ op = "idle"
    /\ \E walk \in {w \in Listings(MaxFiles) : NoRepeat(w)},
          input_isdir \in BOOLEAN, patterns \in PatternLists,
          with_proj \in BOOLEAN :
           /\ (~input_isdir => walk = <<>> /\ patterns = <<>> /\ with_proj)
           /\ LET c == [input |-> F_dir, input_isdir |-> input_isdir, walk |-> walk,
                        patterns |-> patterns, with_proj |-> with_proj,
                        with_raster |-> TRUE, with_eo |-> TRUE,
                        with_private |-> FALSE, properties |-> P_none]
              IN  \E r \in {CliRecursive(c, ItemDefaults)} :
                      /\ op' = "stac --recursive"
                      /\ args' = c
                      /\ ret' = r
                      /\ handles' = r.handles

\* The arrays a band read gives: up to MaxPixels pixels.
Pixels ==
    {Pixel(Finite(0), FALSE), Pixel(Finite(1), FALSE), Pixel(Finite(4), FALSE),
     Pixel(Finite(4), TRUE), Pixel(NaN, FALSE)}

Arrays == UNION {[1..k -> Pixels] : k \in 1..MaxPixels}

\* _get_stats(arr, bins, range)
StatsOfArray ==
    /\ op = "idle"
    /\ \E arr \in Arrays, bins \in {0, 2, 3, 5}, range \in {<<>>, <<0, 8>>, <<0, -1>>} :
           \E r \in {GetStats(arr, bins, range)} :
               /\ op' = "_get_stats"
               /\ args' = [arr |-> arr, bins |-> bins, range |-> range]
               /\ ret' = r
               /\ handles' = handles

\* get_raster_info(src_dst, histogram_bins=..., histogram_range=...)
RasterInfo ==
    /\ op = "idle"
    /\ \E nodata \in {NoNumber, NaN, PosInf, NegInf, Finite(-9999), Finite(0)},
          area_or_point \in {<<>>, <<"A", "r", "e", "a">>}, unit \in {<<>>, <<"m">>}, nbands \in 1..2,
          nodata2 \in {NoNumber, Finite(-9999), Finite(0)},
          arr \in {DefaultArr, <<Pixel(Finite(4), FALSE)>>,
                   <<Pixel(Finite(0), FALSE), Pixel(Finite(1), FALSE)>>},
          histogram_bins \in {10, 3}, histogram_range \in {<<>>, <<0, -1>>} :
           LET ds == Dataset("EPSG:32621", None, nbands, NoTags)
               src_dst == [ds EXCEPT !.nodata = nodata,
                                     !.area_or_point = area_or_point,
                                     !.bands[1].nodata = nodata,
                                     !.bands[nbands].nodata = IF nbands = 1 THEN nodata ELSE nodata2,
                                     !.bands[1].unit = unit,
                                     !.bands[1].arr = arr]
           IN  \E r \in {GetRasterInfo(src_dst, histogram_bins, histogram_range)} :
                   /\ op' = "get_raster_info"
                   /\ args' = [src_dst |-> src_dst, histogram_bins |-> histogram_bins,
                               histogram_range |-> histogram_range]
                   /\ ret' = r
                   /\ handles' = handles

\* The sides of a raster and the values of max_size.
Sides == {1, 14, 20, 28, 50, 441, 1152}

MaxSizes == {0, 1, 21, 25, 1024}

\* The read resolution of get_raster_info(src_dst, max_size) for a dataset
\* of the given height and width.
ReadResolution ==
    /\ op = "idle"
    /\ \E height \in Sides, width \in Sides, max_size \in MaxSizes :
           \E r \in {ReadShape(height, width, max_size)} :
               /\ op' = "get_raster_info out_shape"
               /\ args' = [height |-> height, width |-> width, max_size |-> max_size]
               /\ ret' = [exc |-> None, out_shape |-> r]
               /\ handles' = handles

\* get_eobands_info(src_dst)
EobandsInfo ==
    /\ op = "idle"
    /\ \E descr \in {<<>>, <<"b", "1">>, <<"G", "r", "a", "y">>, <<"G", "r", "e", "y">>, <<"r", "e", "d">>, <<" ", "N", "e", "a", "r", " ", "I", "n", "f", "r", "a", "r", "e", "d">>,
                     <<" ", "N", "I", "R", " ", "0", "8", " ">>, <<"R", "e", "d", " ", "E", "d", "g", "e">>, <<"\t", "R", "E", "D", " ">>},
          color \in {<<>>, <<"g", "r", "a", "y">>, <<"r", "e", "d">>, <<"u", "n", "d", "e", "f", "i", "n", "e", "d">>},
          band_tags \in {NoTagDict, [CENTRAL_WAVELENGTH_UM |-> "0.65"],
                         [CENTRAL_WAVELENGTH_UM |-> "abc", FWHM_UM |-> "0.03"]},
          dataset_tags \in {NoTagDict, [CENTRAL_WAVELENGTH_UM |-> "0.65"]},
          nbands \in 1..2 :
           LET ds == Dataset("EPSG:32621", None, nbands, NoTags)
               src_dst == [ds EXCEPT !.imagery = dataset_tags,
                                     !.bands[1].descr = descr,
                                     !.bands[1].color = color,
                                     !.bands[1].imagery = band_tags]
           IN  \E r \in {GetEobandsInfo(src_dst)} :
                   /\ op' = "get_eobands_info"
                   /\ args' = [src_dst |-> src_dst]
                   /\ ret' = [exc |-> None, bands |-> r]
                   /\ handles' = handles

\* get_projection_info(src_dst) on an open handle, with or without CRS.
ProjectionInfo ==
    /\ op = "idle"
    /\ \E crs \in {None} \cup DOMAIN CrsTable, nbands \in 1..2 :
           LET src_dst == Dataset(crs, None, nbands, NoTags)
           IN  \E r \in {GetProjectionInfo(src_dst)} :
                   /\ op' = "get_projection_info"
                   /\ args' = [src_dst |-> src_dst]
                   /\ ret' = [exc |-> None, meta |-> r]
                   /\ handles' = handles

\* get_dataset_geom(src_dst, densify_pts) on an open handle.
DatasetGeom ==
    /\ op = "idle"
    /\ \E crs \in {None} \cup DOMAIN CrsTable, densify_pts \in (0 - MaxDensify)..MaxDensify,
          fault \in {"none", "warp"} :
           \E r \in {GetDatasetGeom(Dataset(crs, None, 1, NoTags), densify_pts, fault)} :
               /\ op' = "get_dataset_geom"
               /\ args' = [src_dst |-> Dataset(crs, None, 1, NoTags),
                           densify_pts |-> densify_pts, fault |-> fault]
               /\ ret' = r
               /\ handles' = handles

\* rio stac INPUT [-p NAME=VALUE]... [-P NAME=VALUE]... [--with-private-data]
StacSingle ==
    /\ op = "idle"
    /\ \E property \in PairLists(PropertyPairs, MaxPairs),
          private_property \in PairLists(PrivatePairs, MaxPrivatePairs),
          with_private \in BOOLEAN :
           LET c == [property |-> property, private_property |-> private_property,
                     with_private |-> with_private]
           IN  \E r \in {CliSingle(c, ItemDefaults)} :
                   /\ op' = "stac"
                   /\ args' = c
                   /\ ret' = r
                   /\ handles' = r.handles

Next ==
    \/ ItemFromSource
    \/ ItemWithOptions
    \/ ItemWithAssets
    \/ ItemAgain
    \/ ItemWithTags
    \/ ItemWithExtensions
    \/ AssetFromSource
    \/ AssetsFromFiles
    \/ StacRecursive
    \/ StacSingle
    \/ DatasetGeom
    \/ ProjectionInfo
    \/ StatsOfArray
    \/ RasterInfo
    \/ EobandsInfo
    \/ ReadResolution

Spec == Init /\ [][Next]_vars


(***************************************************************************)
(* The calls of create_stac_item a state holds: the call itself, or the    *)
(* one the command line made.                                              *)
(***************************************************************************)
ItemCalls ==
    IF op = "create_stac_item" THEN {[a |-> args, r |-> ret]}
    ELSE IF op \in {"stac --recursive", "stac"} /\ ret.made.exc # "not called"
    THEN {[a |-> ret.item_args, r |-> ret.made]}
    ELSE {}

Returned == {c \in ItemCalls : c.r.exc = None}

\* What the call attaches to the Item: the supplied mapping, or the asset
\* built from the source under asset_name.
Attached(c) ==
    IF c.a.assets # <<>>
    THEN [i \in 1..Len(c.a.assets) |->
            [key |-> c.a.assets[i].key, oid |-> c.a.assets[i].asset.oid,
             roles |-> c.a.assets[i].asset.roles]]
    ELSE <<[key |-> c.a.asset_name, oid |-> 0, roles |-> c.a.asset_roles]>>

LooksLikeThumbnail(e) ==
    \/ SeqHas(e.roles, "thumbnail")
    \/ EndsWith(e.key, S_ql)
    \/ Contains(e.key, S_dash_ql)

Candidates(c) == {i \in 1..Len(Attached(c)) : LooksLikeThumbnail(Attached(c)[i])}

FirstCandidate(c) == CHOOSE i \in Candidates(c) : \A j \in Candidates(c) : i <= j

HasProjKey(extra) == \E k \in DOMAIN extra : StartsWith(k, S_proj)

NormalThumbnail(asset) ==
    /\ asset.title = "thumbnail"
    /\ asset.description = "thumbnail"
    /\ SeqHas(asset.roles, "thumbnail")
    /\ SeqHas(asset.roles, "overview")
    /\ S_proj_code \in DOMAIN asset.extra_fields
    /\ asset.extra_fields[S_proj_code] = None
    /\ \A k \in DOMAIN asset.extra_fields :
          /\ k \notin {S_bands, S_eo_bands, S_raster_bands, S_statistics, S_stats}
          /\ StartsWith(k, S_proj) => k = S_proj_code

\* C1: every returned Item with a thumbnail candidate among its attached assets
\* has an asset at key `thumbnail` with title and description "thumbnail",
\* roles holding thumbnail and overview, proj:code present and null, and no
\* bands, eo:bands, raster:bands, statistics, stats or other proj:* field,
\* whatever roles the candidate had (a role list with metadata included).
C1_ThumbnailNormalised ==
    \A c \in Returned :
        Candidates(c) # {} =>
            \E j \in 1..Len(c.r.item.assets) :
                /\ c.r.item.assets[j].key = S_thumbnail
                /\ NormalThumbnail(c.r.item.assets[j].asset)

C3_ProjInProperties ==
    \A c \in Returned :
        (c.a.with_proj /\ ~c.a.assets_given) =>
            /\ S_proj_code \in DOMAIN c.r.item.properties
            /\ S_proj_bbox \in DOMAIN c.r.item.properties
            /\ (c.a.ds.crs = "LocalWkt" =>
                    \/ S_proj_wkt2 \in DOMAIN c.r.item.properties
                    \/ S_proj_projjson \in DOMAIN c.r.item.properties)

\* C4: with a non-empty supplied mapping the Asset Builder is not called and
\* every asset of the Item is a supplied object, under its supplied key or
\* under `thumbnail`; with no mapping the Item has exactly one asset, the one
\* built from the source, under asset_name unless it is renamed to `thumbnail`.
C4_SuppliedAssetsTakePrecedence ==
    \A c \in Returned :
        /\ c.a.assets # <<>> =>
              /\ c.r.builder_calls = 0
              /\ \A j \in 1..Len(c.r.item.assets) :
                    \E i \in 1..Len(c.a.assets) :
                        /\ c.r.item.assets[j].asset.oid = c.a.assets[i].asset.oid
                        /\ c.r.item.assets[j].asset.href = c.a.assets[i].asset.href
                        /\ c.r.item.assets[j].key \in {c.a.assets[i].key, S_thumbnail}
        /\ ~c.a.assets_given =>
              /\ c.r.builder_calls = 1
              /\ Len(c.r.item.assets) = 1
              /\ c.r.item.assets[1].asset.oid = 0
              /\ c.r.item.assets[1].asset.href = c.a.ds.name
              /\ c.r.item.assets[1].key \in {c.a.asset_name, S_thumbnail}
              /\ (c.r.item.assets[1].key # c.a.asset_name => Candidates(c) # {})

C4_Witness ==
    /\ op = "create_stac_item"
    /\ ret.exc = None
    /\ args.assets # <<>>
    /\ args.asset_name = S_asset
    /\ \E j \in 1..Len(ret.item.assets) : ret.item.assets[j].key = S_asset

C4_WitnessGenerated ==
    /\ op = "create_stac_item"
    /\ ret.exc = None
    /\ ~args.assets_given
    /\ args.asset_name = S_xql
    /\ ret.item.assets[1].key = S_thumbnail

\* The Item's asset made of the attached object i.
Kept(c, i) ==
    {j \in 1..Len(c.r.item.assets) : c.r.item.assets[j].asset.oid = Attached(c)[i].oid}

\* Only the first candidate is renamed or retitled, and to `thumbnail`.
OnlyFirstCandidateRenamed(c) ==
    \A i \in 1..Len(c.a.assets) : \A j \in Kept(c, i) :
        LET before == c.a.assets[i]
            after == c.r.item.assets[j]
        IN  (\/ after.key # before.key
             \/ after.asset.title # before.asset.title
             \/ after.asset.description # before.asset.description
             \/ after.asset.roles # before.asset.roles)
            => /\ Candidates(c) # {}
               /\ i = FirstCandidate(c)
               /\ after.key = S_thumbnail
               /\ after.asset.title = "thumbnail"

LaterCandidates(c) ==
    {i \in Candidates(c) : i > FirstCandidate(c) /\ c.a.assets[i].key # S_thumbnail}

\* C5, as stated: the first candidate alone is renamed and cleaned, and every
\* later candidate keeps its key, title, description, roles and extra fields.
C5_LaterCandidatesUntouched ==
    \A c \in Returned :
        c.a.assets # <<>> =>
            /\ OnlyFirstCandidateRenamed(c)
            /\ \A i \in LaterCandidates(c) :
                  \E j \in 1..Len(c.r.item.assets) :
                      /\ c.r.item.assets[j].key = c.a.assets[i].key
                      /\ c.r.item.assets[j].asset = c.a.assets[i].asset

WithoutProj(extra) == [k \in {x \in DOMAIN extra : ~StartsWith(x, S_proj)} |-> extra[k]]

\* C5, amended: the first candidate alone is renamed and cleaned, and every
\* later candidate keeps its key, title, description and roles, and its extra
\* fields except the proj:* ones when its roles contain metadata.
C5_LaterCandidatesKept ==
    \A c \in Returned :
        c.a.assets # <<>> =>
            /\ OnlyFirstCandidateRenamed(c)
            /\ \A i \in LaterCandidates(c) :
                  \E j \in 1..Len(c.r.item.assets) :
                      /\ c.r.item.assets[j].key = c.a.assets[i].key
                      /\ c.r.item.assets[j].asset =
                            [c.a.assets[i].asset EXCEPT !.extra_fields =
                                IF SeqHas(c.a.assets[i].asset.roles, "metadata")
                                THEN WithoutProj(@) ELSE @]

C5_Witness ==
    /\ op = "create_stac_item"
    /\ ret.exc = None
    /\ Len(args.assets) = 2
    /\ args.assets[1].key = S_xql
    /\ args.assets[2].key = S_s_ql1
    /\ args.assets[2].asset.roles = <<"thumbnail">>
    /\ args.assets[2].asset.extra_fields = X_stats
    /\ ret.item.assets[1].key = S_s_ql1
    /\ ret.item.assets[1].asset.extra_fields = X_stats
    /\ ret.item.assets[2].key = S_thumbnail

\* C6: in every returned Item, an asset other than the selected thumbnail whose
\* roles contain metadata has no extra field whose key starts with proj:.
C6_MetadataAssetsHaveNoProj ==
    \A c \in Returned :
        \A i \in 1..Len(Attached(c)) : \A j \in Kept(c, i) :
            (/\ ~(Candidates(c) # {} /\ i = FirstCandidate(c)
                  /\ c.r.item.assets[j].key = S_thumbnail)
             /\ SeqHas(c.r.item.assets[j].asset.roles, "metadata"))
            => ~HasProjKey(c.r.item.assets[j].asset.extra_fields)

C6_Witness ==
    /\ op = "create_stac_item"
    /\ ret.exc = None
    /\ Len(args.assets) = 1
    /\ args.assets[1].key = S_asset
    /\ args.assets[1].asset.roles = <<"metadata">>
    /\ args.assets[1].asset.extra_fields = X_proj
    /\ ret.item.assets[1].key = S_asset
    /\ DOMAIN ret.item.assets[1].asset.extra_fields = {S_bands, S_gsd}


\* C7: after every call, however it ends, each handle the call opened (the
\* dataset opened from a path, the reprojected view of a GCP dataset, each
\* file build_stac_assets opened) is closed, and the caller's handle is open.
C7_HandlesReleased ==
    /\ \A h \in DOMAIN handles :
          /\ handles[h].by = "callee" => handles[h].state = "closed"
          /\ handles[h].by = "caller" => handles[h].state = "open"
    /\ op = "create_stac_item" =>
          /\ H_dataset \in DOMAIN handles <=> ~(args.source_is_path /\ args.fault = "open")
          /\ H_dataset \in DOMAIN handles =>
                (handles[H_dataset].by = "callee" <=> args.source_is_path)
          /\ (ret.exc = None /\ args.ds.gcps_crs # None) => H_vrt \in DOMAIN handles
    /\ op = "create_stac_asset" =>
          /\ H_dataset \in DOMAIN handles <=> ~(args.source_is_path /\ args.fault = "open")
          /\ H_dataset \in DOMAIN handles =>
                (handles[H_dataset].by = "callee" <=> args.source_is_path)
    /\ op = "build_stac_assets" =>
          \A i \in 1..Len(ret.log) :
              ret.log[i].opened => ret.log[i].path \in DOMAIN handles

C7_Witness ==
    /\ op = "create_stac_item"
    /\ ret.exc = "ValueError"
    /\ args.with_private
    /\ DOMAIN handles = {H_dataset, H_vrt}
    /\ handles[H_dataset] = [by |-> "callee", state |-> "closed"]
    /\ handles[H_vrt] = [by |-> "callee", state |-> "closed"]

NoFilesMessage == "No valid files found in directory matching criteria."

Failed(e) == e.rule # "notfile" /\ e.made = <<>>

\* The files of the log that gave an asset under the key of file i.
GaveKeyOf(log, i) ==
    {j \in 1..Len(log) : log[j].made # <<>> /\ AssetKey(log[j].path) = AssetKey(log[i].path)}

\* C8: build_stac_assets returns whatever a file does: a file that fails gives
\* no entry (its key is there only when another file gave it), the files
\* after it are still handled, the result is the empty mapping when no file
\* gives an asset; the recursive command line ends with
\* "No valid files found" and a non-zero status exactly when it is empty.
C8_FailuresAreSkipped ==
    /\ op = "build_stac_assets" =>
          /\ ret.exc = None
          /\ Len(ret.log) = Len(FilteredFiles(args))
          /\ \A i \in 1..Len(ret.log) :
                IF GaveKeyOf(ret.log, i) = {}
                THEN \A j \in 1..Len(ret.assets) :
                        ret.assets[j].key # AssetKey(ret.log[i].path)
                ELSE \E j \in 1..Len(ret.assets), k \in GaveKeyOf(ret.log, i) :
                        /\ ret.assets[j].key = AssetKey(ret.log[i].path)
                        /\ ret.assets[j].asset = ret.log[k].made[1]
          /\ (\A i \in 1..Len(ret.log) : ret.log[i].made = <<>>) => ret.assets = <<>>
    /\ op = "stac --recursive" =>
          /\ ret.message = NoFilesMessage <=> (ret.collected /\ ret.assets = <<>>)
          /\ ret.message = NoFilesMessage => ret.exit_code # 0

C8_Witness ==
    /\ op = "build_stac_assets"
    /\ Len(ret.log) = 2
    /\ ret.log[1].rule = "CRSError"
    /\ ret.log[1].opened
    /\ ret.log[2].made # <<>>
    /\ Len(ret.assets) = 1

C8_WitnessNoFiles ==
    /\ op = "stac --recursive"
    /\ Len(args.walk) = 2
    /\ ret.message = NoFilesMessage
    /\ ret.exit_code = 1

IsSidecarName(path) ==
    \/ EndsWith(Lower(path), E_json)
    \/ EndsWith(Lower(path), E_xml)
    \/ EndsWith(Lower(path), E_safe)

IsQuicklookName(path) ==
    \/ EndsWith(Lower(path), E_ql_jpg)
    \/ EndsWith(Lower(path), E_ql_jpeg)

\* C9: each kept file is handled by the first rule that applies: a .json, .xml
\* or .safe name (any case) gives a metadata asset of JSON or XML media type
\* and is not opened; a ql.jpg or ql.jpeg name gives a JPEG thumbnail asset; any
\* other file that opens as a raster gives a thumbnail asset when it has no
\* CRS and 3 bands and a data asset otherwise.  Each asset has one role.
C9_ClassificationOrder ==
    op = "build_stac_assets" =>
        \A i \in 1..Len(ret.log) :
            LET e == ret.log[i]
                f == FileAt(e.path)
            IN  f.isfile =>
                    /\ IsSidecarName(e.path) =>
                          /\ ~e.opened
                          /\ e.made # <<>>
                          /\ e.made[1].roles = <<"metadata">>
                          /\ e.made[1].media_type =
                                IF EndsWith(Lower(e.path), E_json)
                                THEN "application/json" ELSE "application/xml"
                    /\ (~IsSidecarName(e.path) /\ IsQuicklookName(e.path)) =>
                          /\ ~e.opened
                          /\ e.made # <<>>
                          /\ e.made[1].roles = <<"thumbnail">>
                          /\ e.made[1].media_type = "image/jpeg"
                    /\ (~IsSidecarName(e.path) /\ ~IsQuicklookName(e.path)) =>
                          /\ e.opened <=> f.raster
                          /\ (f.raster /\ f.fault = "none") => e.made # <<>>
                          /\ e.made # <<>> =>
                                e.made[1].roles =
                                    IF f.crs = None /\ f.count = 3
                                    THEN <<"thumbnail">> ELSE <<"data">>
                    /\ e.made # <<>> => Len(e.made[1].roles) = 1

C9_Witness ==
    /\ op = "build_stac_assets"
    /\ Len(ret.log) = 2
    /\ Basename(ret.log[1].path) = F_MTD_XML
    /\ ret.log[1].made[1].media_type = "application/xml"
    /\ Basename(ret.log[2].path) = F_p_ql_JPG
    /\ ret.log[2].made[1].roles = <<"thumbnail">>
    /\ ~ret.log[2].opened

\* The files build_stac_assets enumerates: the explicit paths, and the walk's
\* entries, each with its bare name and its path relative to `directory`.
Enumerated(b) ==
    {[path |-> b.paths[i], name |-> Basename(b.paths[i]), walked |-> FALSE,
      rel |-> IF b.directory # <<>> THEN Relpath(b.paths[i], b.directory) ELSE b.paths[i]] :
        i \in 1..Len(b.paths)}
    \cup
    {[path |-> b.walk[i].root \o <<"/">> \o b.walk[i].name, name |-> b.walk[i].name,
      walked |-> TRUE,
      rel |-> IF b.walk[i].root = b.directory THEN b.walk[i].name
              ELSE SubSeq(b.walk[i].root, Len(b.directory) + 2, Len(b.walk[i].root))
                       \o <<"/">> \o b.walk[i].name] :
        i \in 1..Len(b.walk)}

MatchesSome(x, patterns) ==
    \E i \in 1..Len(patterns) :
        \/ Contains(patterns[i], <<"/">>) /\ Fnmatch(x.rel, patterns[i])
        \/ ~Contains(patterns[i], <<"/">>) /\ Fnmatch(x.name, patterns[i])

\* C10: the files kept are the enumerated files that match at least one
\* pattern (a pattern with a separator against the path relative to
\* `directory`, any other against the bare name), all of them when there is no
\* pattern; a walked file whose name starts with `.` is never kept.
C10_PatternFiltering ==
    op = "build_stac_assets" =>
        {ret.log[i].path : i \in 1..Len(ret.log)} =
            {x.path : x \in {y \in Enumerated(args) :
                /\ y.walked => Head(y.name) # "."
                /\ args.patterns # <<>> => MatchesSome(y, args.patterns)}}

C10_Witness ==
    /\ op = "build_stac_assets"
    /\ args.patterns = <<<<"s", "/", "*">>>>
    /\ Len(args.walk) = 2
    /\ args.walk[1].name = F_image_tif
    /\ args.walk[2].name = F_p_ql_JPG
    /\ Len(ret.log) = 1
    /\ Basename(ret.log[1].path) = F_p_ql_JPG


\* The enumerated file a log entry is about.
FileOf(e, b) == CHOOSE x \in Enumerated(b) : x.path = e.path

\* The last file with the key of file i that gave an asset.
LastWithKey(log, i) ==
    CHOOSE j \in 1..Len(log) :
        /\ log[j].made # <<>>
        /\ Stem(Basename(log[j].path)) = Stem(Basename(log[i].path))
        /\ \A k \in 1..Len(log) :
              (log[k].made # <<>> /\ Stem(Basename(log[k].path)) = Stem(Basename(log[i].path)))
                  => k <= j

KeysAndCollisions ==
    \A i \in 1..Len(ret.log) :
        ret.log[i].made # <<>> =>
            \E j \in 1..Len(ret.assets) :
                /\ ret.assets[j].key = Stem(FileOf(ret.log[i], args).name)
                /\ ret.assets[j].asset = ret.log[LastWithKey(ret.log, i)].made[1]
                /\ \A k \in 1..Len(ret.assets) :
                      ret.assets[k].key = ret.assets[j].key => k = j

\* C11, as stated: each asset's key is the file name without its last
\* extension, its href the path relative to `directory` whenever a directory
\* was given and the bare name otherwise, and of two files with one key the
\* mapping holds the asset of the one handled last.
C11_HrefRelativeToDirectory ==
    op = "build_stac_assets" =>
        /\ KeysAndCollisions
        /\ \A i \in 1..Len(ret.log) :
              ret.log[i].made # <<>> =>
                  ret.log[i].made[1].href =
                      IF args.directory # <<>> THEN FileOf(ret.log[i], args).rel
                      ELSE FileOf(ret.log[i], args).name

\* C11, amended: the href is the path relative to `directory` when a directory
\* was given and the file's path starts with it, and the bare name otherwise.
C11_HrefRelativeInsideDirectory ==
    op = "build_stac_assets" =>
        /\ KeysAndCollisions
        /\ \A i \in 1..Len(ret.log) :
              ret.log[i].made # <<>> =>
                  ret.log[i].made[1].href =
                      IF args.directory # <<>> /\ StartsWith(ret.log[i].path, args.directory)
                      THEN FileOf(ret.log[i], args).rel
                      ELSE FileOf(ret.log[i], args).name

C11_Witness ==
    /\ op = "build_stac_assets"
    /\ args.directory = F_dir
    /\ args.paths = <<F_sibling_tif>>
    /\ Len(ret.log) = 3
    /\ \A i \in 1..3 : ret.log[i].made # <<>>
    /\ ret.log[1].made[1].href = <<".", ".", "/", "d", "d", "/", "i", "m", "a", "g", "e", ".", "t", "i", "f">>
    /\ ret.log[2].made[1].href = <<"s", "/", "i", "m", "a", "g", "e", ".", "j", "s", "o", "n">>
    /\ Len(ret.assets) = 2
    /\ ret.assets[1].key = S_image
    /\ ret.assets[1].asset.roles = <<"metadata">>


\* A tag read as a date: None when it is absent or does not parse.
TagDate(tag) ==
    IF tag \in {None, ""} \/ StrToDatetime(tag) = "ValueError" THEN None
    ELSE StrToDatetime(tag)

\* C12: without start_datetime and end_datetime in the caller's properties, the
\* Item's datetime is input_datetime if given, else the ACQUISITIONDATETIME
\* tag if it is present and parses, else the TIFFTAG_DATETIME tag if it is
\* present and parses, else the current instant; a tag that does not parse
\* counts as absent and never makes the call fail.
C12_DatetimeFallbackChain ==
    \A c \in ItemCalls :
        (/\ S_start_datetime \notin DOMAIN c.a.properties
         /\ S_end_datetime \notin DOMAIN c.a.properties
         /\ c.a.fault = "none"
         /\ c.a.geom_densify_pts >= 0
         /\ ~c.a.with_private
         /\ ~c.a.with_eo) =>
            /\ c.r.exc = None
            /\ c.r.item.datetime =
                  IF c.a.input_datetime # None THEN c.a.input_datetime
                  ELSE IF TagDate(c.a.ds.tags.ACQUISITIONDATETIME) # None
                  THEN TagDate(c.a.ds.tags.ACQUISITIONDATETIME)
                  ELSE IF TagDate(c.a.ds.tags.TIFFTAG_DATETIME) # None
                  THEN TagDate(c.a.ds.tags.TIFFTAG_DATETIME)
                  ELSE "now"


\* Everything the call lists, in the order it lists it: the caller's
\* extensions, then the schema of each enabled switch.
Listed(c) ==
    c.a.extensions
        \o (IF c.a.with_proj THEN <<PROJECTION_EXT>> ELSE <<>>)
        \o (IF c.a.with_raster THEN <<RASTER_EXT>> ELSE <<>>)
        \o (IF c.a.with_eo THEN <<EO_EXT>> ELSE <<>>)

FirstAt(s, x) == CHOOSE i \in 1..Len(s) : s[i] = x /\ \A j \in 1..(i - 1) : s[j] # x

\* C13: the Item's stac_extensions has no duplicate, holds exactly the
\* caller's extensions and the projection, raster and eo schemas of the
\* enabled switches, and is ordered by first occurrence in that listing; it is
\* empty when nothing is listed.
C13_ExtensionsDeduplicatedInOrder ==
    \A c \in Returned :
        LET e == c.r.item.stac_extensions
        IN  /\ \A i, j \in 1..Len(e) : e[i] = e[j] => i = j
            /\ {e[i] : i \in 1..Len(e)} = {Listed(c)[i] : i \in 1..Len(Listed(c))}
            /\ \A i, j \in 1..Len(e) :
                  i < j => FirstAt(Listed(c), e[i]) < FirstAt(Listed(c), e[j])
            /\ Listed(c) = <<>> => e = <<>>

C13_Witness ==
    /\ op = "create_stac_item"
    /\ ret.exc = None
    /\ args.extensions = <<EO_EXT, SCI_EXT, RASTER_EXT, EO_EXT>>
    /\ args.with_proj /\ args.with_raster /\ args.with_eo
    /\ ret.item.stac_extensions = <<EO_EXT, SCI_EXT, RASTER_EXT, PROJECTION_EXT>>


\* The private keys the command line was given, and the value each one was
\* given last: a -P pair wins over every -p _private object.
GivenObjects ==
    {i \in 1..Len(args.property) :
        args.property[i].k = S_private /\ args.property[i].v.kind = "object"}

GivenPrivateKeys ==
    UNION {DOMAIN args.property[i].v.d : i \in GivenObjects}
        \cup {args.private_property[i].k : i \in 1..Len(args.private_property)}

GivenPrivateValue(k) ==
    LET P == {i \in 1..Len(args.private_property) : args.private_property[i].k = k}
        p == {i \in GivenObjects : k \in DOMAIN args.property[i].v.d}
        last(S) == CHOOSE i \in S : \A j \in S : j <= i
    IN  IF P # {} THEN args.private_property[last(P)].v.s
        ELSE args.property[last(p)].v.d[k]

PrivateRequested ==
    \/ args.with_private
    \/ args.private_property # <<>>
    \/ \E i \in 1..Len(args.property) : args.property[i].k = S_private

\* C14: with private data enabled the Item's `_private` is an object with
\* `hidden`, which is the caller's value when one was supplied and true
\* otherwise; every other supplied private key is kept, repeated -p _private
\* objects are merged and -P keys override them; with private data disabled
\* and no `_private` supplied the Item has no `_private` property.
C14_PrivateDataKept ==
    /\ \A c \in Returned :
          LET before == c.a.properties
              after == c.r.item.properties
          IN  /\ c.a.with_private =>
                    /\ S_private \in DOMAIN after
                    /\ after[S_private].kind = "object"
                    /\ "hidden" \in DOMAIN after[S_private].d
                    /\ IF S_private \in DOMAIN before
                       THEN \A k \in DOMAIN before[S_private].d :
                               /\ k \in DOMAIN after[S_private].d
                               /\ after[S_private].d[k] = before[S_private].d[k]
                       ELSE after[S_private].d = [k \in {"hidden"} |-> "True"]
                    /\ (S_private \in DOMAIN before
                        /\ "hidden" \notin DOMAIN before[S_private].d)
                           => after[S_private].d["hidden"] = "True"
              /\ (~c.a.with_private /\ S_private \notin DOMAIN before)
                    => S_private \notin DOMAIN after
    /\ (op = "stac" /\ ret.made.exc = None) =>
          LET after == ret.made.item.properties
          IN  IF PrivateRequested
              THEN /\ S_private \in DOMAIN after
                   /\ after[S_private].kind = "object"
                   /\ DOMAIN after[S_private].d = GivenPrivateKeys \cup {"hidden"}
                   /\ \A k \in GivenPrivateKeys :
                         after[S_private].d[k] = GivenPrivateValue(k)
                   /\ "hidden" \notin GivenPrivateKeys
                         => after[S_private].d["hidden"] = "True"
              ELSE S_private \notin DOMAIN after

\* The part of C14 that holds: the same, for command lines whose -p _private
\* values are all objects.
C14_PrivateDataKeptAmongObjects ==
    (op = "stac" /\ \E i \in 1..Len(args.property) :
                        args.property[i].k = S_private /\ args.property[i].v.kind # "object")
        \/ C14_PrivateDataKept

\* A `_private` that is there and is neither an object nor None.
NonObjectPrivate(c) ==
    /\ c.a.with_private
    /\ S_private \in DOMAIN c.a.properties
    /\ c.a.properties[S_private].kind # "object"
    /\ c.a.properties[S_private] # Scalar(None)

\* C15: with with_private enabled and `_private` supplied as a value that is
\* not an object, create_stac_item returns no Item, and the failure is a
\* ValueError whenever the call got as far as the private data (the dataset
\* opened, densify_pts >= 0 and the footprint was computed).
C15_NonObjectPrivateRejected ==
    \A c \in ItemCalls :
        NonObjectPrivate(c) =>
            /\ c.r.exc # None
            /\ c.r.item = NoItem
            /\ (c.a.fault = "none" /\ c.a.geom_densify_pts >= 0) => c.r.exc = "ValueError"

C15_Witness ==
    \E c \in ItemCalls :
        /\ NonObjectPrivate(c)
        /\ c.a.properties[S_private] = Scalar("False")
        /\ c.a.fault = "none"
        /\ c.a.geom_densify_pts >= 0
        /\ c.r.exc = "ValueError"
        /\ c.r.item = NoItem

\* C16: get_dataset_geom raises ValueError for every densify_pts < 0,
\* whatever the CRS of the handle (none included) and its bounds, and gives
\* neither the whole-globe sentinel nor any geometry then.
C16_NegativeDensifyRejected ==
    (op = "get_dataset_geom" /\ args.densify_pts < 0) =>
        /\ ret.exc = "ValueError"
        /\ ~ret.warned
        /\ ret.bbox = <<>>
        /\ ret.footprint = NoGeom

C16_Witness ==
    /\ op = "get_dataset_geom"
    /\ args.densify_pts < 0
    /\ args.src_dst.crs = None
    /\ ret.exc = "ValueError"

GlobeRectangle ==
    [type |-> "Polygon",
     coordinates |-> << << <<-180, -90>>, <<180, -90>>, <<180, 90>>, <<-180, 90>>,
                           <<-180, -90>> >> >>]

\* C17: for a handle with no CRS and densify_pts >= 0, get_dataset_geom warns,
\* does not fail and returns bbox (-180, -90, 180, 90) with the closed 5-point
\* rectangle of that bbox; the Item built from such a handle has that bbox
\* and footprint.
C17_NoCrsGivesWholeGlobe ==
    /\ (op = "get_dataset_geom" /\ args.src_dst.crs = None /\ args.densify_pts >= 0) =>
          /\ ret.exc = None
          /\ ret.warned
          /\ ret.bbox = <<-180, -90, 180, 90>>
          /\ ret.footprint = GlobeRectangle
    /\ \A c \in Returned :
          (c.a.ds.crs = None /\ c.a.ds.gcps_crs = None) =>
              /\ c.r.item.bbox = <<-180, -90, 180, 90>>
              /\ c.r.item.geometry = GlobeRectangle

C17_Witness ==
    /\ op = "get_dataset_geom"
    /\ args.src_dst.crs = None
    /\ args.densify_pts = MaxDensify
    /\ ret.warned
    /\ ret.footprint = GlobeRectangle

C17_WitnessItem ==
    \E c \in Returned :
        /\ op = "create_stac_item"
        /\ c.a.ds.crs = None
        /\ c.a.ds.gcps_crs = None
        /\ c.a.geom_densify_pts = MaxDensify
        /\ c.r.item.geometry = GlobeRectangle

\* C18: a band record of get_raster_info has `nodata` exactly when the
\* dataset's nodata is set; it is the string "nan", "inf" or "-inf" for NaN,
\* +Inf and -Inf and the number itself for a finite value (0 and -9999
\* included); None is never forwarded.
C18_NodataForwarded ==
    (op = "get_raster_info" /\ ret.exc = None) =>
        /\ Len(ret.meta) = Len(args.src_dst.bands)
        /\ \A i \in 1..Len(ret.meta) :
              LET nodata == args.src_dst.nodata
              IN  /\ "nodata" \in DOMAIN ret.meta[i] <=> nodata # NoNumber
                  /\ nodata = NaN => ret.meta[i]["nodata"] = JsonString("nan")
                  /\ nodata = PosInf => ret.meta[i]["nodata"] = JsonString("inf")
                  /\ nodata = NegInf => ret.meta[i]["nodata"] = JsonString("-inf")
                  /\ nodata.cls = "finite" => ret.meta[i]["nodata"] = JsonNumber(nodata.v)

C18_Witness ==
    /\ op = "get_raster_info"
    /\ ret.exc = None
    /\ args.src_dst.nodata = Finite(0)
    /\ Len(ret.meta) = 2
    /\ ret.meta[2]["nodata"] = JsonNumber(0)

C18_WitnessUnset ==
    /\ op = "get_raster_info"
    /\ ret.exc = None
    /\ args.src_dst.nodata = NoNumber
    /\ "nodata" \notin DOMAIN ret.meta[1]

\* The distinct values of an array that are neither masked nor nan or inf.
DistinctValid(arr) == {arr[i].x.v : i \in {j \in 1..Len(arr) : ~arr[j].mask /\ arr[j].x.cls = "finite"}}

InvertedRange(range) == range # <<>> /\ range[1] > range[2]

\* C19: a `raster:histogram` of _get_stats has count = len(buckets) + 1;
\* computed without fallback for n bins it has n buckets; computed after the
\* too-many-bins warning it has (distinct unmasked values + 1) buckets; an
\* inverted range, like any other histogram error, is raised and gives no
\* statistics.
C19_HistogramShape ==
    op = "_get_stats" =>
        /\ ret.exc = None =>
              LET h == ret.stats["raster:histogram"]
              IN  /\ h.count = Len(h.buckets) + 1
                  /\ ~ret.warned => Len(h.buckets) = args.bins
                  /\ ret.warned => Len(h.buckets) = Cardinality(DistinctValid(args.arr)) + 1
        /\ (InvertedRange(args.range) \/ args.bins < 1) =>
              /\ ret.exc = "ValueError"
              /\ ~ret.warned
              /\ ret.stats = NoStats
        /\ ret.exc # None => (InvertedRange(args.range) \/ args.bins < 1 \/ ret.warned)

C19_Witness ==
    /\ op = "_get_stats"
    /\ ret.exc = None
    /\ ret.warned
    /\ args.bins = 5
    /\ Len(ret.stats["raster:histogram"].buckets) = 3
    /\ ret.stats["raster:histogram"].count = 4

C19_WitnessNoFallback ==
    /\ op = "_get_stats"
    /\ ret.exc = None
    /\ ~ret.warned
    /\ args.bins = 5
    /\ Len(ret.stats["raster:histogram"].buckets) = 5

C19_WitnessInverted ==
    /\ op = "_get_stats"
    /\ InvertedRange(args.range)
    /\ args.bins = 3
    /\ ret.exc = "ValueError"

\* The EO name a description or color name stands for, <<>> when none.
VocabularyName(candidate) ==
    CASE candidate \in {<<"G", "r", "a", "y">>, <<"G", "r", "e", "y">>, <<"g", "r", "a", "y">>} -> <<"p", "a", "n">>
      [] candidate \in {<<"r", "e", "d">>, <<"\t", "R", "E", "D", " ">>} -> <<"r", "e", "d">>
      [] candidate = <<" ", "N", "I", "R", " ", "0", "8", " ">> -> <<"n", "i", "r", "0", "8">>
      [] candidate = <<"R", "e", "d", " ", "E", "d", "g", "e">> -> <<"r", "e", "d", "e", "d", "g", "e">>
      [] OTHER -> <<>>

\* C20: in get_eobands_info, `description` is the band description when set
\* and the color-interpretation name otherwise; `eo:common_name` is the EO
\* name of the description when it has one, otherwise that of the color
\* name, and the key is absent when neither has one.
C20_CommonNameFromFirstMatch ==
    op = "get_eobands_info" =>
        \A i \in 1..Len(ret.bands) :
            LET descr == args.src_dst.bands[i].descr
                color == args.src_dst.bands[i].color
                m == ret.bands[i]
                expected == IF VocabularyName(descr) # <<>> THEN VocabularyName(descr)
                            ELSE VocabularyName(color)
            IN  /\ descr # <<>> => m["description"] = descr
                /\ (descr = <<>> /\ color # <<>>) => m["description"] = color
                /\ (descr = <<>> /\ color = <<>>) => "description" \notin DOMAIN m
                /\ "eo:common_name" \in DOMAIN m <=> expected # <<>>
                /\ expected # <<>> => m["eo:common_name"] = expected

C20_Witness ==
    /\ op = "get_eobands_info"
    /\ args.src_dst.bands[1].descr = <<"b", "1">>
    /\ args.src_dst.bands[1].color = <<"g", "r", "a", "y">>
    /\ ret.bands[1]["eo:common_name"] = <<"p", "a", "n">>
    /\ ret.bands[1]["description"] = <<"b", "1">>

C20_WitnessAbsent ==
    /\ op = "get_eobands_info"
    /\ args.src_dst.bands[1].descr = <<" ", "N", "e", "a", "r", " ", "I", "n", "f", "r", "a", "r", "e", "d">>
    /\ args.src_dst.bands[1].color = <<"u", "n", "d", "e", "f", "i", "n", "e", "d">>
    /\ "eo:common_name" \notin DOMAIN ret.bands[1]

\* C21 as stated: a band whose description is set and is not an EO name has
\* no `eo:common_name`; a description that is an EO name maps to that name.
C21_NonMatchingDescriptionNoName ==
    op = "get_eobands_info" =>
        \A i \in 1..Len(ret.bands) :
            LET descr == args.src_dst.bands[i].descr
                m == ret.bands[i]
            IN  descr # <<>> =>
                    /\ VocabularyName(descr) = <<>> => "eo:common_name" \notin DOMAIN m
                    /\ VocabularyName(descr) # <<>> =>
                           /\ "eo:common_name" \in DOMAIN m
                           /\ m["eo:common_name"] = VocabularyName(descr)

\* C21, amended: a band whose description is set has no `eo:common_name`
\* when neither its description nor its color-interpretation name is an EO
\* name; a description that is an EO name maps to that name.
C21_NonMatchingCandidatesNoName ==
    op = "get_eobands_info" =>
        \A i \in 1..Len(ret.bands) :
            LET descr == args.src_dst.bands[i].descr
                color == args.src_dst.bands[i].color
                m == ret.bands[i]
            IN  descr # <<>> =>
                    /\ (VocabularyName(descr) = <<>> /\ VocabularyName(color) = <<>>) =>
                           "eo:common_name" \notin DOMAIN m
                    /\ VocabularyName(descr) # <<>> =>
                           /\ "eo:common_name" \in DOMAIN m
                           /\ m["eo:common_name"] = VocabularyName(descr)

C21_Witness ==
    /\ op = "get_eobands_info"
    /\ args.src_dst.bands[1].descr = <<"b", "1">>
    /\ args.src_dst.bands[1].color = <<"u", "n", "d", "e", "f", "i", "n", "e", "d">>
    /\ ret.bands[1]["description"] = <<"b", "1">>
    /\ "eo:common_name" \notin DOMAIN ret.bands[1]

C21_WitnessMatch ==
    /\ op = "get_eobands_info"
    /\ args.src_dst.bands[1].descr = <<"R", "e", "d", " ", "E", "d", "g", "e">>
    /\ args.src_dst.bands[1].color = <<"g", "r", "a", "y">>
    /\ ret.bands[1]["eo:common_name"] = <<"r", "e", "d", "e", "d", "g", "e">>

\* The band records of the two tracks for a call of create_stac_asset.
RasterTrack(b) == IF b.with_raster THEN GetRasterInfo(b.ds, 10, <<>>).meta ELSE <<>>

EoTrack(b) == IF b.with_eo THEN GetEobandsInfo(b.ds) ELSE <<>>

LongerOf(s, t) == IF Len(s) >= Len(t) THEN Len(s) ELSE Len(t)

\* C22: the merged bands of create_stac_asset are as many as the longer
\* track; band i has the keys of the EO record and of the raster record at i,
\* with the raster value on a key of both and the EO value on a key of the EO
\* record alone; every band has a `name`, b{i} when no track gave one; the
\* asset's extra fields have `bands` exactly when the list is not empty.
C22_BandsMerged ==
    (op = "create_stac_asset" /\ ret.exc = None) =>
        LET raster_bands == RasterTrack(args)
            eo_bands == EoTrack(args)
            RasterKeys(i) == IF i <= Len(raster_bands) THEN DOMAIN raster_bands[i] ELSE {}
            EoKeys(i) == IF i <= Len(eo_bands) THEN DOMAIN eo_bands[i] ELSE {}
        IN  /\ Len(ret.bands) = LongerOf(raster_bands, eo_bands)
            /\ \A i \in 1..Len(ret.bands) :
                  /\ DOMAIN ret.bands[i] = RasterKeys(i) \cup EoKeys(i) \cup {"name"}
                  /\ \A k \in RasterKeys(i) : ret.bands[i][k] = raster_bands[i][k]
                  /\ \A k \in EoKeys(i) \ RasterKeys(i) : ret.bands[i][k] = eo_bands[i][k]
                  /\ "name" \notin RasterKeys(i) \cup EoKeys(i) => ret.bands[i]["name"] = BandName(i)
            /\ S_bands \in DOMAIN ret.asset.extra_fields <=> ret.bands # <<>>
            /\ ret.bands # <<>> => ret.asset.extra_fields[S_bands] = ret.bands

C22_Witness ==
    /\ op = "create_stac_asset"
    /\ ret.exc = None
    /\ args.with_raster
    /\ args.with_eo
    /\ Len(ret.bands) = 2
    /\ ret.bands[2]["name"] = "b2"
    /\ ret.bands[2]["data_type"] = "uint16"
    /\ ret.bands[2]["eo:common_name"] = <<"p", "a", "n">>
    /\ S_bands \in DOMAIN ret.asset.extra_fields

C22_WitnessNoBands ==
    /\ op = "create_stac_asset"
    /\ ret.exc = None
    /\ ~args.with_raster
    /\ ~args.with_eo
    /\ args.with_proj
    /\ ret.bands = <<>>
    /\ S_bands \notin DOMAIN ret.asset.extra_fields

HasCode(meta) == meta[N_code] # None

HasWkt2(meta) == N_wkt2 \in DOMAIN meta

HasProjjson(meta) == N_projjson \in DOMAIN meta

\* What holds of every result of get_projection_info besides "exactly one":
\* wkt2 and projjson only without a code, never both, and the geometry, bbox,
\* shape and transform always.
ProjectionInfoShape(meta) ==
    /\ (HasWkt2(meta) \/ HasProjjson(meta)) => ~HasCode(meta)
    /\ ~(HasWkt2(meta) /\ HasProjjson(meta))
    /\ {N_code, N_geometry, N_bbox, N_shape, N_transform} \subseteq DOMAIN meta
    /\ meta[N_bbox] = args.src_dst.bounds
    /\ meta[N_geometry] = BboxToGeom(args.src_dst.bounds)
    /\ meta[N_shape] = args.src_dst.shape
    /\ meta[N_transform] = args.src_dst.transform

\* A CRS that gives a code, a WKT2 text or a PROJJSON object.
Describable(crs) ==
    /\ crs # None
    /\ \/ CrsTable[crs].to_authority \notin {"raises", None}
       \/ CrsTable[crs].is_epsg_code /\ CrsTable[crs].to_epsg # None
       \/ CrsTable[crs].to_wkt # "raises"
       \/ CrsTable[crs].projjson # "raises"

\* C23 as stated: every result of get_projection_info has exactly one of a
\* non-null code and a wkt2 or projjson entry, wkt2 and projjson only without
\* a code and never both, and always geometry, bbox, shape and transform.
C23_ExactlyOneDescription ==
    op = "get_projection_info" =>
        /\ HasCode(ret.meta) # (HasWkt2(ret.meta) \/ HasProjjson(ret.meta))
        /\ ProjectionInfoShape(ret.meta)

\* C23, amended: at most one of a non-null code and a wkt2 or projjson
\* entry, and exactly one when the dataset has a CRS that gives a code, a
\* WKT2 text or a PROJJSON object; the rest as stated.
C23_AtMostOneDescription ==
    op = "get_projection_info" =>
        /\ ~(HasCode(ret.meta) /\ (HasWkt2(ret.meta) \/ HasProjjson(ret.meta)))
        /\ Describable(args.src_dst.crs) =>
               (HasCode(ret.meta) \/ HasWkt2(ret.meta) \/ HasProjjson(ret.meta))
        /\ ~Describable(args.src_dst.crs) =>
               ~(HasCode(ret.meta) \/ HasWkt2(ret.meta) \/ HasProjjson(ret.meta))
        /\ ProjectionInfoShape(ret.meta)

C23_Witness ==
    /\ op = "get_projection_info"
    /\ args.src_dst.crs = "LocalProjjson"
    /\ ~HasCode(ret.meta)
    /\ ~HasWkt2(ret.meta)
    /\ HasProjjson(ret.meta)

C23_WitnessCode ==
    /\ op = "get_projection_info"
    /\ args.src_dst.crs = "EpsgOnly"
    /\ ret.meta[N_code] = "EPSG:4326"
    /\ ~HasWkt2(ret.meta)

C23_WitnessNoCrs ==
    /\ op = "get_projection_info"
    /\ args.src_dst.crs = None
    /\ ~HasCode(ret.meta)
    /\ ~HasWkt2(ret.meta)
    /\ ~HasProjjson(ret.meta)
    /\ ret.meta[N_bbox] = <<0, 64, 128, 0>>

\* The calls that returned an Item with an asset generated from a source
\* that carries ground-control points.
GeneratedFromGcps ==
    {c \in Returned : /\ c.a.ds.gcps_crs # None
                      /\ c.a.assets = <<>>
                      /\ c.a.asset_name = S_asset
                      /\ c.a.asset_roles = <<>>}

\* C24: with ground-control points on the source, the generated asset of
\* create_stac_item is built from the reprojected view, the handle the
\* geometry is read from: its proj:* fields are those of the view.
C24_GeneratedAssetFromGcpView ==
    \A c \in GeneratedFromGcps :
        c.a.with_proj =>
            LET view == ProjExtraFields(WarpedVRT(c.a.ds))
                extra == Get(c.r.item.assets, S_asset).extra_fields
            IN  \A k \in DOMAIN view : k \in DOMAIN extra /\ extra[k] = view[k]

\* C25: the `nodata` of the record of band i of get_raster_info is that of
\* band i: present exactly when band i has a nodata value, and then that
\* value.
C25_NodataOfEachBand ==
    (op = "get_raster_info" /\ ret.exc = None) =>
        \A i \in 1..Len(ret.meta) :
            LET nodata == args.src_dst.bands[i].nodata
            IN  /\ "nodata" \in DOMAIN ret.meta[i] <=> nodata # NoNumber
                /\ nodata = NaN => ret.meta[i]["nodata"] = JsonString("nan")
                /\ nodata = PosInf => ret.meta[i]["nodata"] = JsonString("inf")
                /\ nodata = NegInf => ret.meta[i]["nodata"] = JsonString("-inf")
                /\ nodata.cls = "finite" => ret.meta[i]["nodata"] = JsonNumber(nodata.v)

\* C26: a call of create_stac_item that fails leaves the caller's
\* `properties` mapping with the keys and values it had before the call.
C26_FailureLeavesPropertiesAlone ==
    \A c \in ItemCalls :
        (op = "create_stac_item" /\ c.r.exc # None) => c.r.properties = c.a.properties

\* C27: create_stac_item leaves the caller's `extensions` list as it was:
\* same length, same elements.
C27_ExtensionsListUnchanged ==
    \A c \in ItemCalls :
        op = "create_stac_item" => c.r.extensions = c.a.extensions

\* The renamed thumbnail took the place of a supplied asset keyed `thumbnail`.
Displaced(c) ==
    /\ Candidates(c) # {}
    /\ c.a.assets[FirstCandidate(c)].key \notin {S_empty, S_thumbnail}
    /\ \E i \in 1..Len(c.a.assets) : c.a.assets[i].key = S_thumbnail

\* The supplied assets post-processing has no business with: not the
\* selected thumbnail, no `metadata` role, not keyed `thumbnail`.
Bystanders(c) ==
    {i \in 1..Len(c.a.assets) :
        /\ ~(Candidates(c) # {} /\ i = FirstCandidate(c))
        /\ ~SeqHas(c.a.assets[i].asset.roles, "metadata")
        /\ c.a.assets[i].key # S_thumbnail}

\* C28: in a returned Item every supplied asset that is not the selected
\* thumbnail, has no `metadata` role and is not keyed `thumbnail` is there
\* under its key with the href, roles, title, description and extra fields
\* it had; the Item has as many assets as were supplied, one less when the
\* renamed thumbnail displaced an asset keyed `thumbnail`.
C28_OtherAssetsUntouched ==
    \A c \in Returned :
        c.a.assets # <<>> =>
            /\ \A i \in Bystanders(c) :
                  \E j \in 1..Len(c.r.item.assets) :
                      /\ c.r.item.assets[j].key = c.a.assets[i].key
                      /\ c.r.item.assets[j].asset = c.a.assets[i].asset
            /\ ~Displaced(c) => Len(c.r.item.assets) = Len(c.a.assets)
            /\ Displaced(c) => Len(c.r.item.assets) = Len(c.a.assets) - 1

C28_Witness ==
    /\ op = "create_stac_item"
    /\ ret.exc = None
    /\ Len(args.assets) = 2
    /\ args.assets[1].key = S_xql
    /\ args.assets[2].key = S_asset
    /\ args.assets[2].asset.roles = <<>>
    /\ args.assets[2].asset.extra_fields = X_proj
    /\ Len(ret.item.assets) = 2
    /\ ret.item.assets[1].key = S_asset
    /\ ret.item.assets[1].asset.extra_fields = X_proj
    /\ ret.item.assets[1].asset.title = "a title"
    /\ ret.item.assets[2].key = S_thumbnail

C28_WitnessDisplaced ==
    /\ op = "create_stac_item"
    /\ ret.exc = None
    /\ Len(args.assets) = 2
    /\ args.assets[1].key = S_s_ql1
    /\ args.assets[2].key = S_thumbnail
    /\ Len(ret.item.assets) = 1
    /\ ret.item.assets[1].key = S_thumbnail
    /\ ret.item.assets[1].asset.oid = args.assets[1].asset.oid

\* What C29 compares of an asset.
Described(asset) ==
    [roles |-> asset.roles, title |-> asset.title, description |-> asset.description,
     extra_fields |-> asset.extra_fields]

\* C29: passing the assets of a returned Item back in as `assets` gives an
\* Item with the same asset keys, each asset with the same roles, title,
\* description and extra fields, with one thumbnail candidate or several.
C29_PostProcessingIdempotent ==
    (op = "create_stac_item again" /\ ret.exc = None) =>
        /\ Keys(ret.item.assets) = Keys(args.assets)
        /\ \A k \in Keys(args.assets) :
              Described(Get(ret.item.assets, k)) = Described(Get(args.assets, k))

\* ceil(a / b) for naturals, b > 0.
CeilOfQuotient(a, b) == (a + b - 1) \div b

\* C30: for positive width, height and max_size, when the longer side
\* exceeds max_size the read shape has the long side at max_size and the
\* short side at ceil(short * max_size / long), between 1 and max_size;
\* otherwise, and for max_size = 0, it is the native (height, width).
C30_ReadResolution ==
    op = "get_raster_info out_shape" =>
        LET height == args.height
            width == args.width
            max_size == args.max_size
        IN  IF max_size # 0 /\ (height > max_size \/ width > max_size)
            THEN IF height > width
                 THEN /\ ret.out_shape[1] = max_size
                      /\ ret.out_shape[2] = CeilOfQuotient(width * max_size, height)
                      /\ ret.out_shape[2] \in 1..max_size
                 ELSE /\ ret.out_shape[2] = max_size
                      /\ ret.out_shape[1] = CeilOfQuotient(height * max_size, width)
                      /\ ret.out_shape[1] \in 1..max_size
            ELSE ret.out_shape = <<height, width>>

====
